---- MODULE Spec2Model ----
(***************************************************************************)
(* A model of the discord-oauth2 client library: the OAuth2Client object   *)
(* (its credential fields, its constructor, the bot-token setter and one   *)
(* action per request operation), the HttpClient helper that hands a       *)
(* request to fetch and maps the response, and the error classes.          *)
(*                                                                         *)
(* Optional values (string | undefined) are sequences: <<>> is undefined   *)
(* and <<v>> is the value v.  A call of an async operation is two steps:   *)
(* the synchronous part (validation, request building, the call of fetch)  *)
(* and, when the transport answers, the continuation after the await.      *)
(***************************************************************************)
EXTENDS Integers, Sequences, FiniteSets, Bags, TLC

\* client      the OAuth2Client object: None before a constructor call succeeded
\* pending     the calls whose request is with the transport: a bag, as the
\*             transport answers them in any order
\* fetchCount  the number of calls of fetch made so far
\* bot         history of the bot credential the caller supplied: given, the one
\*             supplied last (constructor option or successful setBotToken);
\*             atConstruction, the constructor's option; set, whether a
\*             setBotToken call has succeeded
\* last        history: the step taken last, its arguments and its result
\* established history: the fields of the client as the constructor left them
\*             (None before a constructor call succeeded)
VARIABLES client, pending, fetchCount, bot, last, established

vars == <<client, pending, fetchCount, bot, last, established>>

\* Bounds of the model.
MaxFetch == 2
MaxPending == 1
MaxPermissions == 2
MaxScopes == 3
MaxInFlight == 2

None == <<>>
Some(v) == <<v>>

\* JavaScript truthiness of a value of type string | undefined.
Truthy(o) == o # None /\ o[1] # ""

(***************************************************************************)
(* Input domains.                                                          *)
(***************************************************************************)
ClientIdInputs == {None, Some(""), Some("id1")}
ClientSecretInputs == {None, Some(""), Some("s1")}
RedirectUriInputs == {None, Some(""), Some("https://app.test/cb")}
ApiEndpointInputs == {None, Some(""), Some("https://api.test")}
BotTokenInputs == {None, Some(""), Some("tA")}
SetBotTokenInputs == {"", "tB"}
CodeInputs == {"", "c1"}
TokenInputs == {"", "tok1"}
GuildIdInputs == {"", "g1"}
UserIdInputs == {"", "u1"}
ScopesInputs == {None, Some(<<"identify", "guilds.join">>)}
HintInputs == {None, Some("access_token")}
ScopeStringInputs == {"", " a  b "}
MemberOptionsInputs ==
  { [nick |-> None, roles |-> None, mute |-> None, deaf |-> None],
    [nick |-> Some("\"n\""), roles |-> Some("[\"r1\"]"), mute |-> Some("true"), deaf |-> None] }

(***************************************************************************)
(* Error classes.                                                          *)
(***************************************************************************)
OAuth2Error(name, message) ==
  [name |-> name, message |-> message, statusCode |-> None, code |-> None, errors |-> None]

ValidationError(message) == OAuth2Error("ValidationError", message)

ConfigurationError(message) == OAuth2Error("ConfigurationError", message)

\* errorData is undefined (None) or the parsed error body (Some(object)).
DiscordAPIRequestError_NoCode(message, statusCode, errorData) ==
  [name |-> "DiscordAPIRequestError", message |-> message, statusCode |-> Some(statusCode),
   code |-> None,
   errors |-> IF errorData = None THEN None ELSE errorData[1].errors]

DiscordAPIRequestError(message, statusCode, errorData) ==
  [name |-> "DiscordAPIRequestError", message |-> message, statusCode |-> Some(statusCode),
   code |-> IF errorData = None THEN None ELSE errorData[1].code,
   errors |-> IF errorData = None THEN None ELSE errorData[1].errors]

(***************************************************************************)
(* Helpers.                                                                *)
(***************************************************************************)
DEFAULT_API_ENDPOINT == "https://discord.com/api/v10"

DISCORD_OAUTH2_URLS ==
  [AUTHORIZE |-> "https://discord.com/oauth2/authorize",
   TOKEN |-> "https://discord.com/api/oauth2/token",
   TOKEN_REVOKE |-> "https://discord.com/api/oauth2/token/revoke"]

\* Buffer.from(s).toString('base64') on the credentials of the model.
Base64(s) ==
  CASE s = "id1:s1" -> "aWQxOnMx"
    [] s = "id2:s1" -> "aWQyOnMx"
    [] s = "id1:s2" -> "aWQxOnMy"
    [] s = "id2:s2" -> "aWQyOnMy"

encodeBasicAuth(clientId, clientSecret) ==
  "Basic " \o Base64(clientId \o ":" \o clientSecret)

\* scopes.join(' ')
RECURSIVE Join(_)
Join(scopes) ==
  IF Len(scopes) = 0 THEN ""
  ELSE IF Len(scopes) = 1 THEN scopes[1]
  ELSE scopes[1] \o " " \o Join(Tail(scopes))

\* The entries of Object.entries(data) whose value is not undefined, in order:
\* what URLSearchParams (form bodies) and JSON.stringify (JSON bodies) keep.
RECURSIVE DefinedEntries(_)
DefinedEntries(data) ==
  IF Len(data) = 0 THEN <<>>
  ELSE IF data[1][2] = None THEN DefinedEntries(Tail(data))
  ELSE <<(<<data[1][1], data[1][2][1]>>)>> \o DefinedEntries(Tail(data))

toFormUrlEncoded(data) == [format |-> "form", entries |-> DefinedEntries(data)]

JSON_stringify(data) == [format |-> "json", entries |-> DefinedEntries(data)]

\* The text JSON.stringify gives a string value (the model's strings need no escape).
JsonString(s) == "\"" \o s \o "\""

Authorization(value) == "Authorization" :> value

\* The values of a params object: string | number | boolean.
Str(s) == [t |-> "string", s |-> s, n |-> 0, b |-> FALSE]

Num(n) == [t |-> "number", s |-> "", n |-> n, b |-> FALSE]

Bool(b) == [t |-> "boolean", s |-> "", n |-> 0, b |-> b]

DigitChar(d) == SubSeq("0123456789", d + 1, d + 1)

\* The decimal numeral of a natural number.
RECURSIVE NatToString(_)
NatToString(n) ==
  IF n < 10 THEN DigitChar(n) ELSE NatToString(n \div 10) \o DigitChar(n % 10)

\* String(value)
String(value) ==
  CASE value.t = "string" -> value.s
    [] value.t = "number" -> NatToString(value.n)
    [] value.t = "boolean" -> IF value.b THEN "true" ELSE "false"

\* url.searchParams.set(key, value): replaces the value of a key already
\* present, appends the pair otherwise.
searchParamsSet(searchParams, key, value) ==
  IF \E i \in DOMAIN searchParams : searchParams[i][1] = key
  THEN [i \in DOMAIN searchParams |->
          IF searchParams[i][1] = key THEN <<key, value>> ELSE searchParams[i]]
  ELSE Append(searchParams, <<key, value>>)

\* The forEach of buildUrl over Object.entries(params): undefined values are skipped.
RECURSIVE setEach(_, _)
setEach(searchParams, params) ==
  IF Len(params) = 0 THEN searchParams
  ELSE IF params[1][2] = None THEN setEach(searchParams, Tail(params))
  ELSE setEach(searchParamsSet(searchParams, params[1][1], String(params[1][2][1])),
               Tail(params))

\* A URL is kept as its base and its query parameters in order.
buildUrl(baseUrl, params) == [base |-> baseUrl, searchParams |-> setEach(<<>>, params)]

scopesToString(scopes) == Join(scopes)

normalizePermissions(permissions) ==
  IF permissions = None THEN None ELSE Some(Str(String(permissions[1])))

\* scopeString.split(' '): cur is the piece being read.
RECURSIVE split(_, _)
split(s, cur) ==
  IF s = "" THEN <<cur>>
  ELSE IF Head(s) = " " THEN <<cur>> \o split(Tail(s), "")
  ELSE split(Tail(s), cur \o Head(s))

parseScopeString_KeepsEmpty(scopeString) == split(scopeString, "")

\* scopeString.split(' ').filter(Boolean)
parseScopeString(scopeString) ==
  SelectSeq(split(scopeString, ""), LAMBDA piece : piece # "")

(***************************************************************************)
(* HttpClient: the request each public helper hands to fetch.              *)
(***************************************************************************)
USER_AGENT == "discord-oauth2 (https://github.com/0neShot101/discord-oauth2)"

\* { ...defaults, ...headers }: a caller's header replaces a default one.
Spread(defaults, headers) ==
  [k \in DOMAIN defaults \cup DOMAIN headers |->
     IF k \in DOMAIN headers THEN headers[k] ELSE defaults[k]]

HttpClient_get_NoUserAgent(url, headers) ==
  [method |-> "GET", url |-> url, headers |-> headers, body |-> None]

HttpClient_get(url, headers) ==
  [method |-> "GET", url |-> url,
   headers |-> Spread(("User-Agent" :> USER_AGENT), headers),
   body |-> None]

HttpClient_post(url, body, headers) ==
  [method |-> "POST", url |-> url,
   headers |-> Spread(("User-Agent" :> USER_AGENT) @@
                     ("Content-Type" :> "application/x-www-form-urlencoded"), headers),
   body |-> Some(body)]

HttpClient_put_AsPost(url, body, headers) ==
  [method |-> "POST", url |-> url,
   headers |-> Spread(("User-Agent" :> USER_AGENT) @@
                     ("Content-Type" :> "application/x-www-form-urlencoded"), headers),
   body |-> Some(body)]

HttpClient_put(url, body, headers) ==
  [method |-> "PUT", url |-> url,
   headers |-> Spread(("User-Agent" :> USER_AGENT) @@ ("Content-Type" :> "application/json"),
                     headers),
   body |-> Some(body)]

\* The calls of fetch one call of HttpClient.request makes: one, never repeated.
requestFetches_Retry(req) == <<req, req>>

requestFetches(req) == <<req>>

(***************************************************************************)
(* The transport's answers.  A response body either fails to parse as JSON *)
(* (response.json() rejects) or parses to a JSON value; of a parsed object *)
(* the model keeps the properties the code reads (message, code, errors)   *)
(* and a payload.                                                          *)
(***************************************************************************)
JNull == [t |-> "null", message |-> None, code |-> None, errors |-> None, data |-> None]

JObject(message, code, errors, data) ==
  [t |-> "object", message |-> message, code |-> code, errors |-> errors, data |-> data]

EmptyObject == JObject(None, None, None, None)

Bodies ==
  { [parses |-> FALSE, value |-> JNull],
    [parses |-> TRUE, value |-> JNull],
    [parses |-> TRUE, value |-> JObject(Some("invalid_grant"), Some(5), None, None)],
    [parses |-> TRUE, value |-> JObject(Some("Invalid Form Body"), Some(50035),
                                        Some("{code:BASE_TYPE_REQUIRED}"), None)],
    [parses |-> TRUE, value |-> JObject(Some(""), None, None, None)],
    [parses |-> TRUE, value |-> JObject(None, None, None, Some("payload"))] }

Statuses == {200, 204, 400, 401}

StatusTexts == {"", "Bad Request"}

ContentTypes == {None, Some("application/json"), Some("application/json; charset=utf-8"),
                 Some("text/html")}

\* fetch rejects (a connection-level failure) or resolves with a response.
Responses ==
  { [failed |-> TRUE, status |-> 0, statusText |-> "", contentType |-> None,
     body |-> [parses |-> FALSE, value |-> JNull]] }
  \cup [failed : {FALSE}, status : Statuses, statusText : StatusTexts,
        contentType : ContentTypes, body : Bodies]

\* response.ok
Ok(response) == response.status \in 200..299

\* contentType?.includes('application/json') on the content types of the model.
IncludesJson(contentType) ==
  /\ contentType # None
  /\ contentType[1] \in {"application/json", "application/json; charset=utf-8"}

\* if (parsed): null is falsy, an object is truthy.
JTruthy(value) == value.t = "object"

Rejected(error) == [state |-> "rejected", error |-> Some(error), value |-> None]

Fulfilled(value) == [state |-> "fulfilled", error |-> None, value |-> value]

\* The error fetch rejects with; the library passes it on untouched.
FetchError == [name |-> "TypeError", message |-> "fetch failed", statusCode |-> None,
               code |-> None, errors |-> None]

\* The error response.json() rejects with on a body that is not JSON.
JsonSyntaxError == [name |-> "SyntaxError", message |-> "Unexpected token", statusCode |-> None,
                    code |-> None, errors |-> None]

\* errorData: set only when the content type is JSON and the body parses to a truthy value.
parseErrorData(response) ==
  IF IncludesJson(response.contentType) /\ response.body.parses /\ JTruthy(response.body.value)
  THEN Some(response.body.value)
  ELSE None

\* errorData?.message || response.statusText || 'Unknown error'
errorMessage_NoGeneric(errorData, statusText) ==
  IF errorData # None /\ Truthy(errorData[1].message) THEN errorData[1].message[1]
  ELSE statusText

errorMessage(errorData, statusText) ==
  IF errorData # None /\ Truthy(errorData[1].message) THEN errorData[1].message[1]
  ELSE IF statusText # "" THEN statusText
  ELSE "Unknown error"

\* The branch of HttpClient.request for a response that is not ok.
errorResponse_NoCatch(response) ==
  IF IncludesJson(response.contentType) /\ ~response.body.parses
  THEN Rejected(JsonSyntaxError)
  ELSE Rejected(DiscordAPIRequestError(
         errorMessage(parseErrorData(response), response.statusText),
         response.status, parseErrorData(response)))

errorResponse(response) ==
  Rejected(DiscordAPIRequestError(
    errorMessage(parseErrorData(response), response.statusText),
    response.status, parseErrorData(response)))

\* The branch of HttpClient.request for an ok response.
okResponse_IgnoresContentType(response) ==
  IF response.body.parses THEN Fulfilled(Some(response.body.value))
  ELSE Fulfilled(Some(EmptyObject))

okResponse(response) ==
  IF IncludesJson(response.contentType)
  THEN IF response.body.parses THEN Fulfilled(Some(response.body.value))
       ELSE Rejected(JsonSyntaxError)
  ELSE Fulfilled(Some(EmptyObject))

\* HttpClient.request after its await of fetch.
requestOutcome(response) ==
  IF response.failed THEN Rejected(FetchError)
  ELSE IF ~Ok(response) THEN errorResponse(response)
  ELSE okResponse(response)

(***************************************************************************)
(* OAuth2Client: validation of each operation (the error it throws, or     *)
(* None) and the request it builds.                                        *)
(***************************************************************************)
OAuth2ClientOptions ==
  [clientId : ClientIdInputs, clientSecret : ClientSecretInputs,
   redirectUri : RedirectUriInputs, apiEndpoint : ApiEndpointInputs,
   botToken : BotTokenInputs]

constructorValidation_EmptyRedirectAccepted(options) ==
  IF ~Truthy(options.clientId) \/ ~Truthy(options.clientSecret) \/ options.redirectUri = None
  THEN Some(ValidationError("clientId, clientSecret, and redirectUri are required"))
  ELSE None

constructorValidation(options) ==
  IF ~Truthy(options.clientId) \/ ~Truthy(options.clientSecret) \/ ~Truthy(options.redirectUri)
  THEN Some(ValidationError("clientId, clientSecret, and redirectUri are required"))
  ELSE None

\* The fields the constructor assigns (the three required options are strings here).
constructorFields(options) ==
  [clientId |-> options.clientId[1],
   clientSecret |-> options.clientSecret[1],
   redirectUri |-> options.redirectUri[1],
   apiEndpoint |-> IF Truthy(options.apiEndpoint) THEN options.apiEndpoint[1]
                   ELSE DEFAULT_API_ENDPOINT,
   botToken |-> options.botToken]

setBotTokenValidation_AcceptEmpty(botToken) == None

setBotTokenValidation(botToken) ==
  IF botToken = "" THEN Some(ValidationError("Bot token is required")) ELSE None

\* this.botToken = botToken
setBotTokenAssign_OnlyIfUnset(c, botToken) ==
  IF c.botToken = None THEN [c EXCEPT !.botToken = Some(botToken)] ELSE c

setBotTokenAssign(c, botToken) == [c EXCEPT !.botToken = Some(botToken)]

exchangeCodeValidation(code) ==
  IF code = "" THEN Some(ValidationError("Authorization code is required")) ELSE None

\* options reaches the body of the method, which reads options?.scopes and
\* discards it (void options?.scopes).
exchangeCodeRequest_SendsScopes(c, code, options) ==
  HttpClient_post(DISCORD_OAUTH2_URLS.TOKEN,
    toFormUrlEncoded(<< <<"grant_type", Some("authorization_code")>>,
                        <<"code", Some(code)>>,
                        <<"redirect_uri", Some(c.redirectUri)>>,
                        <<"scope", IF options # None THEN Some(Join(options[1])) ELSE None>> >>),
    Authorization(encodeBasicAuth(c.clientId, c.clientSecret)))

exchangeCodeRequest(c, code, options) ==
  HttpClient_post(DISCORD_OAUTH2_URLS.TOKEN,
    toFormUrlEncoded(<< <<"grant_type", Some("authorization_code")>>,
                        <<"code", Some(code)>>,
                        <<"redirect_uri", Some(c.redirectUri)>> >>),
    Authorization(encodeBasicAuth(c.clientId, c.clientSecret)))

refreshTokenValidation(refreshToken) ==
  IF refreshToken = "" THEN Some(ValidationError("Refresh token is required")) ELSE None

refreshTokenRequest(c, refreshToken, options) ==
  HttpClient_post(DISCORD_OAUTH2_URLS.TOKEN,
    toFormUrlEncoded(<< <<"grant_type", Some("refresh_token")>>,
                        <<"refresh_token", Some(refreshToken)>> >>),
    Authorization(encodeBasicAuth(c.clientId, c.clientSecret)))

getClientCredentialsRequest(c, scopes) ==
  HttpClient_post(DISCORD_OAUTH2_URLS.TOKEN,
    toFormUrlEncoded(<< <<"grant_type", Some("client_credentials")>>,
                        <<"scope", IF scopes # None THEN Some(Join(scopes[1])) ELSE None>> >>),
    Authorization(encodeBasicAuth(c.clientId, c.clientSecret)))

revokeTokenValidation(token) ==
  IF token = "" THEN Some(ValidationError("Token is required")) ELSE None

revokeTokenRequest(c, token, tokenTypeHint) ==
  HttpClient_post(DISCORD_OAUTH2_URLS.TOKEN_REVOKE,
    toFormUrlEncoded(<< <<"token", Some(token)>>, <<"token_type_hint", tokenTypeHint>> >>),
    Authorization(encodeBasicAuth(c.clientId, c.clientSecret)))

\* The arguments checked before the bot token.
addUserToGuildValidation_ArgumentsFirst(c, guildId, userId, userAccessToken) ==
  IF guildId = "" THEN Some(ValidationError("Guild ID is required"))
  ELSE IF userId = "" THEN Some(ValidationError("User ID is required"))
  ELSE IF userAccessToken = "" THEN Some(ValidationError("User access token is required"))
  ELSE IF ~Truthy(c.botToken)
  THEN Some(ValidationError("Bot token is required to add members to a guild"))
  ELSE None

\* The bot token compared with undefined instead of tested for truthiness.
addUserToGuildValidation_BotTokenDefined(c, guildId, userId, userAccessToken) ==
  IF c.botToken = None
  THEN Some(ValidationError("Bot token is required to add members to a guild"))
  ELSE IF guildId = "" THEN Some(ValidationError("Guild ID is required"))
  ELSE IF userId = "" THEN Some(ValidationError("User ID is required"))
  ELSE IF userAccessToken = "" THEN Some(ValidationError("User access token is required"))
  ELSE None

addUserToGuildValidation_NoBotCheck(c, guildId, userId, userAccessToken) ==
  IF guildId = "" THEN Some(ValidationError("Guild ID is required"))
  ELSE IF userId = "" THEN Some(ValidationError("User ID is required"))
  ELSE IF userAccessToken = "" THEN Some(ValidationError("User access token is required"))
  ELSE None

addUserToGuildValidation(c, guildId, userId, userAccessToken) ==
  IF ~Truthy(c.botToken)
  THEN Some(ValidationError("Bot token is required to add members to a guild"))
  ELSE IF guildId = "" THEN Some(ValidationError("Guild ID is required"))
  ELSE IF userId = "" THEN Some(ValidationError("User ID is required"))
  ELSE IF userAccessToken = "" THEN Some(ValidationError("User access token is required"))
  ELSE None

\* `Bot ${this.botToken}`: an undefined token would be formatted as "undefined".
BotAuthorization(botToken) ==
  "Bot " \o (IF botToken = None THEN "undefined" ELSE botToken[1])

addUserToGuildRequest(c, guildId, userId, userAccessToken, options) ==
  HttpClient_put(c.apiEndpoint \o "/guilds/" \o guildId \o "/members/" \o userId,
    JSON_stringify(<< <<"access_token", Some(JsonString(userAccessToken))>>,
                      <<"nick", options.nick>>,
                      <<"roles", options.roles>>,
                      <<"mute", options.mute>>,
                      <<"deaf", options.deaf>> >>),
    Authorization(BotAuthorization(c.botToken)))

getCurrentBotApplicationRequest_BotAuth(c) ==
  HttpClient_get(c.apiEndpoint \o "/oauth2/applications/@me",
    Authorization(BotAuthorization(c.botToken)))

getCurrentBotApplicationRequest(c) ==
  HttpClient_get(c.apiEndpoint \o "/oauth2/applications/@me",
    Authorization(encodeBasicAuth(c.clientId, c.clientSecret)))

accessTokenValidation_None(accessToken) == None

\* if (!accessToken) throw new ValidationError('Access token is required')
accessTokenValidation(accessToken) ==
  IF accessToken = "" THEN Some(ValidationError("Access token is required")) ELSE None

\* The four lookups differ in their path alone.
bearerGetRequest(c, path, accessToken) ==
  HttpClient_get(c.apiEndpoint \o path, Authorization("Bearer " \o accessToken))

\* The truthiness of an optional string | number | boolean.
ToBoolean(o) ==
  /\ o # None
  /\ CASE o[1].t = "string" -> o[1].s # ""
       [] o[1].t = "number" -> o[1].n # 0
       [] o[1].t = "boolean" -> o[1].b

AuthorizationUrlOptions ==
  [scopes : {None, Some(<<>>), Some(<<"identify">>), Some(<<"identify", "email">>)},
   state : {None, Some(Str("")), Some(Str("xyz"))},
   responseType : {None, Some(Str("")), Some(Str("token"))},
   prompt : {None, Some(Str("consent"))},
   integrationType : {None, Some(Num(0))},
   guildId : {None, Some(Str("g1"))},
   disableGuildSelect : {None, Some(Bool(FALSE)), Some(Bool(TRUE))},
   permissions : {None, Some(Num(8)), Some(Str("2048"))}]

\* if (!options.scopes || options.scopes.length === 0) throw new ValidationError(...)
generateAuthUrlValidation_AcceptEmpty(options) ==
  IF options.scopes = None
  THEN Some(ValidationError("At least one scope is required"))
  ELSE None

generateAuthUrlValidation(options) ==
  IF options.scopes = None \/ Len(options.scopes[1]) = 0
  THEN Some(ValidationError("At least one scope is required"))
  ELSE None

generateAuthUrlParams_StateIfTruthy(c, options) ==
  << <<"client_id", Some(Str(c.clientId))>>,
     <<"redirect_uri", Some(Str(c.redirectUri))>>,
     <<"response_type",
       IF ToBoolean(options.responseType) THEN options.responseType ELSE Some(Str("code"))>>,
     <<"scope", Some(Str(scopesToString(options.scopes[1])))>>,
     <<"state", IF ToBoolean(options.state) THEN options.state ELSE None>>,
     <<"prompt", options.prompt>>,
     <<"integration_type", options.integrationType>>,
     <<"guild_id", options.guildId>>,
     <<"disable_guild_select", options.disableGuildSelect>>,
     <<"permissions", normalizePermissions(options.permissions)>> >>

generateAuthUrlParams(c, options) ==
  << <<"client_id", Some(Str(c.clientId))>>,
     <<"redirect_uri", Some(Str(c.redirectUri))>>,
     <<"response_type",
       IF ToBoolean(options.responseType) THEN options.responseType ELSE Some(Str("code"))>>,
     <<"scope", Some(Str(scopesToString(options.scopes[1])))>>,
     <<"state", options.state>>,
     <<"prompt", options.prompt>>,
     <<"integration_type", options.integrationType>>,
     <<"guild_id", options.guildId>>,
     <<"disable_guild_select", options.disableGuildSelect>>,
     <<"permissions", normalizePermissions(options.permissions)>> >>

\* The URL generateAuthUrl returns when its validation passes.
generateAuthUrlResult(c, options) ==
  buildUrl(DISCORD_OAUTH2_URLS.AUTHORIZE, generateAuthUrlParams(c, options))

BotAuthorizationUrlOptions ==
  [permissions : {None, Some(Num(8)), Some(Str("2048"))},
   guildId : {None, Some(Str("g1"))},
   disableGuildSelect : {None, Some(Bool(FALSE)), Some(Bool(TRUE))},
   scopes : {None, Some(<<>>), Some(<<"applications.commands">>),
             Some(<<"identify", "guilds">>)},
   state : {None, Some(Str("xyz"))}]

\* The argument of generateBotAuthUrl: omitted (None) or an options object.
BotAuthorizationUrlArguments == {None} \cup {Some(o) : o \in BotAuthorizationUrlOptions}

\* options: BotAuthorizationUrlOptions = {}
botOptionsOrDefault(options) ==
  IF options = None
  THEN [permissions |-> None, guildId |-> None, disableGuildSelect |-> None,
        scopes |-> None, state |-> None]
  ELSE options[1]

\* options.scopes ? ['bot', ...options.scopes] : ['bot']
botScopes_ExtrasFirst(options) ==
  IF options.scopes # None THEN options.scopes[1] \o <<"bot">> ELSE <<"bot">>

botScopes(options) ==
  IF options.scopes # None THEN <<"bot">> \o options.scopes[1] ELSE <<"bot">>

\* if (options.scopes && options.scopes.length > 0)
botRedirectParams_Whenever(c, options) ==
  IF options.scopes # None
  THEN << <<"redirect_uri", Some(Str(c.redirectUri))>>,
          <<"response_type", Some(Str("code"))>> >>
  ELSE <<>>

botRedirectParams(c, options) ==
  IF options.scopes # None /\ Len(options.scopes[1]) > 0
  THEN << <<"redirect_uri", Some(Str(c.redirectUri))>>,
          <<"response_type", Some(Str("code"))>> >>
  ELSE <<>>

generateBotAuthUrlParams_WithBotToken(c, options) ==
  << <<"client_id", Some(Str(c.clientId))>>,
     <<"scope", Some(Str(Join(botScopes(options))))>>,
     <<"permissions", normalizePermissions(options.permissions)>>,
     <<"guild_id", options.guildId>>,
     <<"disable_guild_select", options.disableGuildSelect>>,
     <<"state", options.state>>,
     <<"bot_token", IF c.botToken = None THEN None ELSE Some(Str(c.botToken[1]))>> >>
  \o botRedirectParams(c, options)

generateBotAuthUrlParams(c, options) ==
  << <<"client_id", Some(Str(c.clientId))>>,
     <<"scope", Some(Str(Join(botScopes(options))))>>,
     <<"permissions", normalizePermissions(options.permissions)>>,
     <<"guild_id", options.guildId>>,
     <<"disable_guild_select", options.disableGuildSelect>>,
     <<"state", options.state>> >>
  \o botRedirectParams(c, options)

generateBotAuthUrlResult(c, options) ==
  buildUrl(DISCORD_OAUTH2_URLS.AUTHORIZE,
           generateBotAuthUrlParams(c, botOptionsOrDefault(options)))

getClientId(c) == c.clientId

getRedirectUri(c) == c.redirectUri

getApiEndpoint_Default(c) == DEFAULT_API_ENDPOINT

getApiEndpoint(c) == c.apiEndpoint

(***************************************************************************)
(* Permissions.  A bigint is kept as the set of the positions of its one   *)
(* bits, so that no width limits it: | is union and & is intersection.     *)
(* Decimal strings are strings of digits; the arithmetic that converts     *)
(* between the two works on pairs [hi, lo] that stand for hi * 10^8 + lo,  *)
(* which covers every value below 10^16 (bit positions up to 52).          *)
(***************************************************************************)
\* 1n << n
ShiftLeft(n) == {n}

\* a | b
BitOr(a, b) == a \cup b

\* a & b
BitAnd(a, b) == a \cap b

PermissionFlags ==
  << [name |-> "CREATE_INSTANT_INVITE", value |-> ShiftLeft(0)],
     [name |-> "KICK_MEMBERS", value |-> ShiftLeft(1)],
     [name |-> "BAN_MEMBERS", value |-> ShiftLeft(2)],
     [name |-> "ADMINISTRATOR", value |-> ShiftLeft(3)],
     [name |-> "MANAGE_CHANNELS", value |-> ShiftLeft(4)],
     [name |-> "MANAGE_GUILD", value |-> ShiftLeft(5)],
     [name |-> "ADD_REACTIONS", value |-> ShiftLeft(6)],
     [name |-> "VIEW_AUDIT_LOG", value |-> ShiftLeft(7)],
     [name |-> "PRIORITY_SPEAKER", value |-> ShiftLeft(8)],
     [name |-> "STREAM", value |-> ShiftLeft(9)],
     [name |-> "VIEW_CHANNEL", value |-> ShiftLeft(10)],
     [name |-> "SEND_MESSAGES", value |-> ShiftLeft(11)],
     [name |-> "SEND_TTS_MESSAGES", value |-> ShiftLeft(12)],
     [name |-> "MANAGE_MESSAGES", value |-> ShiftLeft(13)],
     [name |-> "EMBED_LINKS", value |-> ShiftLeft(14)],
     [name |-> "ATTACH_FILES", value |-> ShiftLeft(15)],
     [name |-> "READ_MESSAGE_HISTORY", value |-> ShiftLeft(16)],
     [name |-> "MENTION_EVERYONE", value |-> ShiftLeft(17)],
     [name |-> "USE_EXTERNAL_EMOJIS", value |-> ShiftLeft(18)],
     [name |-> "VIEW_GUILD_INSIGHTS", value |-> ShiftLeft(19)],
     [name |-> "CONNECT", value |-> ShiftLeft(20)],
     [name |-> "SPEAK", value |-> ShiftLeft(21)],
     [name |-> "MUTE_MEMBERS", value |-> ShiftLeft(22)],
     [name |-> "DEAFEN_MEMBERS", value |-> ShiftLeft(23)],
     [name |-> "MOVE_MEMBERS", value |-> ShiftLeft(24)],
     [name |-> "USE_VAD", value |-> ShiftLeft(25)],
     [name |-> "CHANGE_NICKNAME", value |-> ShiftLeft(26)],
     [name |-> "MANAGE_NICKNAMES", value |-> ShiftLeft(27)],
     [name |-> "MANAGE_ROLES", value |-> ShiftLeft(28)],
     [name |-> "MANAGE_WEBHOOKS", value |-> ShiftLeft(29)],
     [name |-> "MANAGE_GUILD_EXPRESSIONS", value |-> ShiftLeft(30)],
     [name |-> "USE_APPLICATION_COMMANDS", value |-> ShiftLeft(31)],
     [name |-> "REQUEST_TO_SPEAK", value |-> ShiftLeft(32)],
     [name |-> "MANAGE_EVENTS", value |-> ShiftLeft(33)],
     [name |-> "MANAGE_THREADS", value |-> ShiftLeft(34)],
     [name |-> "CREATE_PUBLIC_THREADS", value |-> ShiftLeft(35)],
     [name |-> "CREATE_PRIVATE_THREADS", value |-> ShiftLeft(36)],
     [name |-> "USE_EXTERNAL_STICKERS", value |-> ShiftLeft(37)],
     [name |-> "SEND_MESSAGES_IN_THREADS", value |-> ShiftLeft(38)],
     [name |-> "USE_EMBEDDED_ACTIVITIES", value |-> ShiftLeft(39)],
     [name |-> "MODERATE_MEMBERS", value |-> ShiftLeft(40)],
     [name |-> "VIEW_CREATOR_MONETIZATION_ANALYTICS", value |-> ShiftLeft(41)],
     [name |-> "USE_SOUNDBOARD", value |-> ShiftLeft(42)],
     [name |-> "CREATE_GUILD_EXPRESSIONS", value |-> ShiftLeft(43)],
     [name |-> "CREATE_EVENTS", value |-> ShiftLeft(44)],
     [name |-> "USE_EXTERNAL_SOUNDS", value |-> ShiftLeft(45)],
     [name |-> "SEND_VOICE_MESSAGES", value |-> ShiftLeft(46)],
     [name |-> "SEND_POLLS", value |-> ShiftLeft(49)],
     [name |-> "USE_EXTERNAL_APPS", value |-> ShiftLeft(50)] >>

\* PermissionFlags.NAME
Flag(name) ==
  PermissionFlags[CHOOSE i \in DOMAIN PermissionFlags : PermissionFlags[i].name = name].value

PermissionPresets ==
  [NONE |-> {},
   ADMINISTRATOR |-> Flag("ADMINISTRATOR"),
   BASIC_TEXT |-> BitOr(BitOr(Flag("VIEW_CHANNEL"), Flag("SEND_MESSAGES")),
                        Flag("READ_MESSAGE_HISTORY")),
   BASIC_VOICE |-> BitOr(BitOr(Flag("VIEW_CHANNEL"), Flag("CONNECT")), Flag("SPEAK")),
   MODERATOR |-> BitOr(BitOr(BitOr(Flag("KICK_MEMBERS"), Flag("BAN_MEMBERS")),
                             Flag("MANAGE_MESSAGES")), Flag("MODERATE_MEMBERS")),
   TEXT_AND_EMBEDS |-> BitOr(BitOr(BitOr(BitOr(Flag("VIEW_CHANNEL"), Flag("SEND_MESSAGES")),
                                         Flag("EMBED_LINKS")), Flag("ATTACH_FILES")),
                             Flag("READ_MESSAGE_HISTORY"))]

Base == 100000000

Zero == [hi |-> 0, lo |-> 0]

\* The value of the four bits of a bigint at the positions b .. b + 3.
Nibble(bits, b) ==
  (IF b \in bits THEN 1 ELSE 0) + (IF b + 1 \in bits THEN 2 ELSE 0)
  + (IF b + 2 \in bits THEN 4 ELSE 0) + (IF b + 3 \in bits THEN 8 ELSE 0)

\* 16 * p + nibble
Times16(p, nibble) ==
  [hi |-> 16 * p.hi + (16 * p.lo + nibble) \div Base, lo |-> (16 * p.lo + nibble) % Base]

HighestBit(bits) == CHOOSE m \in bits : \A k \in bits : k <= m

\* The value of the bits at the positions b and above, divided by 2^b.
RECURSIVE ValueFrom(_, _, _)
ValueFrom(bits, b, highest) ==
  IF b > highest THEN Zero
  ELSE Times16(ValueFrom(bits, b + 4, highest), Nibble(bits, b))

RECURSIVE PadStart(_, _)
PadStart(s, width) == IF Len(s) >= width THEN s ELSE PadStart("0" \o s, width)

\* bigint.toString(): the decimal numeral, without leading zeros.
BigIntToString(bits) ==
  LET p == IF bits = {} THEN Zero ELSE ValueFrom(bits, 0, HighestBit(bits))
  IN IF p.hi = 0 THEN NatToString(p.lo)
     ELSE NatToString(p.hi) \o PadStart(NatToString(p.lo), 8)

DigitValue(ch) == CHOOSE d \in 0..9 : DigitChar(d) = ch

\* 10 * p + digit
Times10(p, digit) ==
  [hi |-> 10 * p.hi + (10 * p.lo + digit) \div Base, lo |-> (10 * p.lo + digit) % Base]

\* The value of a decimal numeral.
RECURSIVE ParseDecimal(_)
ParseDecimal(s) ==
  IF s = "" THEN Zero
  ELSE Times10(ParseDecimal(SubSeq(s, 1, Len(s) - 1)),
               DigitValue(SubSeq(s, Len(s), Len(s))))

\* The one bits of p, counted from position b, four at a time (Base is a
\* multiple of 16, so the low four bits of p are those of p.lo).
RECURSIVE BitsOf(_, _)
BitsOf(p, b) ==
  IF p.hi = 0 /\ p.lo = 0 THEN {}
  ELSE {b + i : i \in {j \in 0..3 : ((p.lo % 16) \div (2 ^ j)) % 2 = 1}}
       \cup BitsOf([hi |-> p.hi \div 16, lo |-> ((p.hi % 16) * Base + p.lo) \div 16], b + 4)

\* BigInt(string) of a decimal numeral.
BigInt(s) == BitsOf(ParseDecimal(s), 0)

\* A permission value of type string | bigint.
PermString(s) == [t |-> "string", s |-> s, bits |-> {}]

PermBigInt(bits) == [t |-> "bigint", s |-> "", bits |-> bits]

\* typeof permissions === 'string' ? BigInt(permissions) : permissions
toBigInt(permissions) ==
  IF permissions.t = "string" THEN BigInt(permissions.s) ELSE permissions.bits

\* permissions.reduce((acc, perm) => acc | perm, 0n): the union of the elements.
reduceOr_KeepLast(permissions) ==
  IF Len(permissions) = 0 THEN {} ELSE permissions[Len(permissions)]

reduceOr(permissions) == UNION {BitOr({}, permissions[i]) : i \in DOMAIN permissions}

calculatePermissions_Below32(permissions) ==
  BigIntToString({b \in reduceOr(permissions) : b < 32})

calculatePermissions(permissions) == BigIntToString(reduceOr(permissions))

hasPermission_AnyBit(permissions, flag) == BitAnd(toBigInt(permissions), flag) # {}

hasPermission(permissions, flag) == BitAnd(toBigInt(permissions), flag) = flag

\* The entries of PermissionFlags that pass the test, in the order of the table.
getPermissionFlags_Below32(permissions) ==
  LET kept == SelectSeq(PermissionFlags,
                LAMBDA e : BitAnd(toBigInt(permissions), e.value) = e.value
                           /\ \A b \in e.value : b < 32)
  IN [i \in DOMAIN kept |-> kept[i].name]

getPermissionFlags(permissions) ==
  LET kept == SelectSeq(PermissionFlags,
                LAMBDA e : BitAnd(toBigInt(permissions), e.value) = e.value)
  IN [i \in DOMAIN kept |-> kept[i].name]

\* The arguments of the permission functions in SpecPerm: six flags (the
\* lowest, one each side of bit 32, the two highest), zero, the raw value 3
\* and a bit no flag has.
PermissionArguments ==
  { Flag("CREATE_INSTANT_INVITE"), Flag("ADMINISTRATOR"), Flag("USE_APPLICATION_COMMANDS"),
    Flag("REQUEST_TO_SPEAK"), Flag("SEND_POLLS"), Flag("USE_EXTERNAL_APPS"),
    {}, {0, 1}, ShiftLeft(47) }

\* Every flag of the table, in its order.
AllFlagValues == [i \in DOMAIN PermissionFlags |-> PermissionFlags[i].value]

\* The flag lists of the presets BASIC_TEXT and MODERATOR.
PresetLists ==
  { <<Flag("VIEW_CHANNEL"), Flag("SEND_MESSAGES"), Flag("READ_MESSAGE_HISTORY")>>,
    <<Flag("KICK_MEMBERS"), Flag("BAN_MEMBERS"), Flag("MANAGE_MESSAGES"),
      Flag("MODERATE_MEMBERS")>> }

\* Each flag of the table alone.
SingleFlagLists == {<<PermissionFlags[i].value>> : i \in DOMAIN PermissionFlags}

PermissionLists ==
  UNION {[1..n -> PermissionArguments] : n \in 0..MaxPermissions}
  \cup SingleFlagLists \cup PresetLists \cup {AllFlagValues}

\* The flag argument of hasPermission: single flags, zero, and two multi-bit values.
FlagArguments ==
  { Flag("CREATE_INSTANT_INVITE"), Flag("ADMINISTRATOR"), Flag("REQUEST_TO_SPEAK"),
    Flag("SEND_POLLS"), Flag("USE_EXTERNAL_APPS"), {},
    BitOr(Flag("CREATE_INSTANT_INVITE"), Flag("ADMINISTRATOR")),
    BitOr(Flag("ADMINISTRATOR"), Flag("SEND_POLLS")) }

PresetValues == {PermissionPresets[k] : k \in DOMAIN PermissionPresets}

(***************************************************************************)
(* Steps.                                                                  *)
(***************************************************************************)
CallRecord(op, args, thrown, issued) ==
  [kind |-> "call", op |-> op, args |-> args, thrown |-> thrown, issued |-> issued,
   fetchBefore |-> fetchCount]

\* The synchronous part of an operation: it throws the error its validation
\* gives, or builds its request and HttpClient.request hands it to fetch.
\* limit is the number of calls the model lets wait for the transport.
InvokeWithin(limit, op, args, thrown, req) ==
  IF thrown # None
  THEN /\ last' = CallRecord(op, args, thrown, <<>>)
       /\ UNCHANGED <<client, pending, fetchCount, bot, established>>
  ELSE /\ BagCardinality(pending) < limit
       /\ fetchCount + Len(requestFetches(req)) <= MaxFetch
       /\ fetchCount' = fetchCount + Len(requestFetches(req))
       /\ pending' = pending (+) SetToBag({[op |-> op, request |-> req]})
       /\ last' = CallRecord(op, args, None, requestFetches(req))
       /\ UNCHANGED <<client, bot, established>>

Invoke(op, args, thrown, req) == InvokeWithin(MaxPending, op, args, thrown, req)

\* A call of an operation that returns or throws at once and leaves the
\* client and the transport alone.
Return(op, args, thrown, result) ==
  /\ last' = [kind |-> "call", op |-> op, args |-> args, thrown |-> thrown, issued |-> <<>>,
              fetchBefore |-> fetchCount,
              result |-> IF thrown # None THEN None ELSE Some(result)]
  /\ UNCHANGED <<client, pending, fetchCount, bot, established>>

Init ==
  /\ client = None
  /\ pending = EmptyBag
  /\ fetchCount = 0
  /\ bot = [given |-> None, atConstruction |-> None, set |-> FALSE]
  /\ last = [kind |-> "init"]
  /\ established = None

constructor ==
  /\ client = None
  /\ \E options \in OAuth2ClientOptions :
       /\ last' = CallRecord("constructor", options, constructorValidation(options), <<>>)
       /\ IF constructorValidation(options) # None
          THEN UNCHANGED <<client, bot, established>>
          ELSE /\ client' = Some(constructorFields(options))
               /\ established' = client'
               /\ bot' = [given |-> options.botToken, atConstruction |-> options.botToken,
                          set |-> FALSE]
  /\ UNCHANGED <<pending, fetchCount>>

\* this.botToken = botToken placed before the check of the argument.
setBotToken_AssignsBeforeCheck ==
  /\ client # None
  /\ \E botToken \in SetBotTokenInputs :
       /\ last' = CallRecord("setBotToken", [botToken |-> botToken],
                             setBotTokenValidation(botToken), <<>>)
       /\ client' = Some(setBotTokenAssign(client[1], botToken))
       /\ IF setBotTokenValidation(botToken) # None
          THEN UNCHANGED bot
          ELSE bot' = [bot EXCEPT !.given = Some(botToken), !.set = TRUE]
  /\ UNCHANGED <<pending, fetchCount, established>>

\* A setter that also rewrites the header of the requests in flight.
setBotToken_RewritesInFlight ==
  /\ client # None
  /\ \E botToken \in SetBotTokenInputs :
       /\ last' = CallRecord("setBotToken", [botToken |-> botToken],
                             setBotTokenValidation(botToken), <<>>)
       /\ IF setBotTokenValidation(botToken) # None
          THEN UNCHANGED <<client, bot, pending>>
          ELSE /\ client' = Some(setBotTokenAssign(client[1], botToken))
               /\ bot' = [bot EXCEPT !.given = Some(botToken), !.set = TRUE]
               /\ pending' = BagOfAll(
                    LAMBDA call :
                      IF call.op = "addUserToGuild"
                      THEN [call EXCEPT !.request.headers["Authorization"] =
                                          BotAuthorization(Some(botToken))]
                      ELSE call,
                    pending)
  /\ UNCHANGED <<fetchCount, established>>

setBotToken ==
  /\ client # None
  /\ \E botToken \in SetBotTokenInputs :
       /\ last' = CallRecord("setBotToken", [botToken |-> botToken],
                             setBotTokenValidation(botToken), <<>>)
       /\ IF setBotTokenValidation(botToken) # None
          THEN UNCHANGED <<client, bot>>
          ELSE /\ client' = Some(setBotTokenAssign(client[1], botToken))
               /\ bot' = [bot EXCEPT !.given = Some(botToken), !.set = TRUE]
  /\ UNCHANGED <<pending, fetchCount, established>>

exchangeCode ==
  /\ client # None
  /\ \E code \in CodeInputs, options \in ScopesInputs :
       Invoke("exchangeCode", [code |-> code, options |-> options],
              exchangeCodeValidation(code), exchangeCodeRequest(client[1], code, options))

refreshToken ==
  /\ client # None
  /\ \E token \in TokenInputs, options \in ScopesInputs :
       Invoke("refreshToken", [refreshToken |-> token, options |-> options],
              refreshTokenValidation(token), refreshTokenRequest(client[1], token, options))

getClientCredentials ==
  /\ client # None
  /\ \E scopes \in ScopesInputs :
       Invoke("getClientCredentials", [scopes |-> scopes], None,
              getClientCredentialsRequest(client[1], scopes))

revokeToken ==
  /\ client # None
  /\ \E token \in TokenInputs, tokenTypeHint \in HintInputs :
       Invoke("revokeToken", [token |-> token, tokenTypeHint |-> tokenTypeHint],
              revokeTokenValidation(token), revokeTokenRequest(client[1], token, tokenTypeHint))

AddUserToGuildWithin(limit) ==
  /\ client # None
  /\ \E guildId \in GuildIdInputs, userId \in UserIdInputs, userAccessToken \in TokenInputs,
        options \in MemberOptionsInputs :
       InvokeWithin(limit, "addUserToGuild",
              [guildId |-> guildId, userId |-> userId, userAccessToken |-> userAccessToken,
               options |-> options],
              addUserToGuildValidation(client[1], guildId, userId, userAccessToken),
              addUserToGuildRequest(client[1], guildId, userId, userAccessToken, options))

addUserToGuild == AddUserToGuildWithin(MaxPending)

getCurrentBotApplication ==
  /\ client # None
  /\ Invoke("getCurrentBotApplication", [none |-> None], None,
            getCurrentBotApplicationRequest(client[1]))

getCurrentAuthorizationInfo ==
  /\ client # None
  /\ \E accessToken \in TokenInputs :
       Invoke("getCurrentAuthorizationInfo", [accessToken |-> accessToken],
              accessTokenValidation(accessToken),
              bearerGetRequest(client[1], "/oauth2/@me", accessToken))

getUser ==
  /\ client # None
  /\ \E accessToken \in TokenInputs :
       Invoke("getUser", [accessToken |-> accessToken],
              accessTokenValidation(accessToken),
              bearerGetRequest(client[1], "/users/@me", accessToken))

getUserGuilds ==
  /\ client # None
  /\ \E accessToken \in TokenInputs :
       Invoke("getUserGuilds", [accessToken |-> accessToken],
              accessTokenValidation(accessToken),
              bearerGetRequest(client[1], "/users/@me/guilds", accessToken))

getUserConnections ==
  /\ client # None
  /\ \E accessToken \in TokenInputs :
       Invoke("getUserConnections", [accessToken |-> accessToken],
              accessTokenValidation(accessToken),
              bearerGetRequest(client[1], "/users/@me/connections", accessToken))

GenerateAuthUrlWith(options) ==
  Return("generateAuthUrl", options, generateAuthUrlValidation(options),
         generateAuthUrlResult(client[1], options))

GenerateBotAuthUrlWith(options) ==
  Return("generateBotAuthUrl", [options |-> options], None,
         generateBotAuthUrlResult(client[1], options))

\* The options the URL builders are called with in Spec (SpecUrl below goes
\* through all of AuthorizationUrlOptions and BotAuthorizationUrlArguments):
\* no scopes, an empty scope list, scopes alone, and every option at once.
ScopesOnly(scopes) ==
  [scopes |-> scopes, state |-> None, responseType |-> None, prompt |-> None,
   integrationType |-> None, guildId |-> None, disableGuildSelect |-> None,
   permissions |-> None]

AuthorizationUrlCalls ==
  { ScopesOnly(Some(<<>>)),
    [scopes |-> Some(<<"identify", "email">>), state |-> Some(Str("xyz")),
     responseType |-> Some(Str("token")), prompt |-> Some(Str("consent")),
     integrationType |-> Some(Num(0)), guildId |-> Some(Str("g1")),
     disableGuildSelect |-> Some(Bool(TRUE)), permissions |-> Some(Num(8))] }

BotAuthorizationUrlCalls ==
  { None,
    Some([permissions |-> Some(Str("2048")), guildId |-> None, disableGuildSelect |-> None,
          scopes |-> Some(<<"identify", "guilds">>), state |-> None]) }

generateAuthUrl ==
  /\ client # None
  /\ \E options \in AuthorizationUrlCalls : GenerateAuthUrlWith(options)

generateBotAuthUrl ==
  /\ client # None
  /\ \E options \in BotAuthorizationUrlCalls : GenerateBotAuthUrlWith(options)

\* parseScopes is static: it needs no client.
parseScopes ==
  \E scopeString \in ScopeStringInputs :
    Return("parseScopes", [scopeString |-> scopeString], None, parseScopeString(scopeString))

getClientIdCall ==
  /\ client # None
  /\ Return("getClientId", [none |-> None], None, getClientId(client[1]))

getRedirectUriCall ==
  /\ client # None
  /\ Return("getRedirectUri", [none |-> None], None, getRedirectUri(client[1]))

getApiEndpointCall ==
  /\ client # None
  /\ Return("getApiEndpoint", [none |-> None], None, getApiEndpoint(client[1]))

\* revokeToken and addUserToGuild await the request and return nothing.
VoidOperations == {"revokeToken", "addUserToGuild"}

operationOutcome(op, outcome) ==
  IF op \in VoidOperations /\ outcome.state = "fulfilled" THEN Fulfilled(None) ELSE outcome

\* The transport answers a pending call: HttpClient.request resumes after its
\* await, and the operation's promise settles with what it returns or throws.
SettleWith_DropsBotTokenOn401(call, response) ==
  /\ pending' = pending (-) SetToBag({call})
  /\ last' = [kind |-> "settle", op |-> call.op, response |-> response,
              outcome |-> operationOutcome(call.op, requestOutcome(response)),
              issued |-> <<>>, fetchBefore |-> fetchCount]
  /\ client' = IF ~response.failed /\ response.status = 401
               THEN Some([client[1] EXCEPT !.botToken = None])
               ELSE client
  /\ UNCHANGED <<fetchCount, bot, established>>

SettleWith(call, response) ==
  /\ pending' = pending (-) SetToBag({call})
  /\ last' = [kind |-> "settle", op |-> call.op, response |-> response,
              outcome |-> operationOutcome(call.op, requestOutcome(response)),
              issued |-> <<>>, fetchBefore |-> fetchCount]
  /\ UNCHANGED <<client, fetchCount, bot, established>>

\* The answers the transport gives in Spec: one for each path through
\* HttpClient.request (SpecHttp below goes through all of Responses).
TransportAnswers ==
  { [failed |-> TRUE, status |-> 0, statusText |-> "", contentType |-> None,
     body |-> [parses |-> FALSE, value |-> JNull]],
    [failed |-> FALSE, status |-> 200, statusText |-> "",
     contentType |-> Some("application/json"),
     body |-> [parses |-> TRUE, value |-> JObject(None, None, None, Some("payload"))]],
    [failed |-> FALSE, status |-> 200, statusText |-> "",
     contentType |-> Some("application/json"), body |-> [parses |-> FALSE, value |-> JNull]],
    [failed |-> FALSE, status |-> 200, statusText |-> "", contentType |-> None,
     body |-> [parses |-> FALSE, value |-> JNull]],
    [failed |-> FALSE, status |-> 400, statusText |-> "Bad Request",
     contentType |-> Some("application/json"),
     body |-> [parses |-> TRUE, value |-> JObject(Some("invalid_grant"), Some(5), None, None)]],
    [failed |-> FALSE, status |-> 401, statusText |-> "", contentType |-> Some("text/html"),
     body |-> [parses |-> FALSE, value |-> JNull]] }

settle ==
  \E call \in BagToSet(pending), response \in TransportAnswers :
    SettleWith(call, response)

Next ==
  \/ constructor
  \/ setBotToken
  \/ exchangeCode
  \/ refreshToken
  \/ getClientCredentials
  \/ revokeToken
  \/ addUserToGuild
  \/ getCurrentBotApplication
  \/ getCurrentAuthorizationInfo
  \/ getUser
  \/ getUserGuilds
  \/ getUserConnections
  \/ generateAuthUrl
  \/ generateBotAuthUrl
  \/ parseScopes
  \/ getClientIdCall
  \/ getRedirectUriCall
  \/ getApiEndpointCall
  \/ settle

Spec == Init /\ [][Next]_vars

(***************************************************************************)
(* SpecHttp: the response handling of HttpClient.request on every response *)
(* of Responses, for the calls of one client: refreshToken (which returns  *)
(* what the request returns) and revokeToken (which returns nothing).      *)
(***************************************************************************)
HttpClientOptions ==
  [clientId |-> Some("id1"), clientSecret |-> Some("s1"),
   redirectUri |-> Some("https://app.test/cb"), apiEndpoint |-> None, botToken |-> None]

InitHttp ==
  /\ client = Some(constructorFields(HttpClientOptions))
  /\ pending = EmptyBag
  /\ fetchCount = 0
  /\ bot = [given |-> None, atConstruction |-> None, set |-> FALSE]
  /\ last = [kind |-> "init"]
  /\ established = Some(constructorFields(HttpClientOptions))

settleAny ==
  \E call \in BagToSet(pending), response \in Responses : SettleWith(call, response)

NextHttp ==
  \/ refreshToken
  \/ revokeToken
  \/ settleAny

SpecHttp == InitHttp /\ [][NextHttp]_vars

(***************************************************************************)
(* SpecUrl: the two URL builders as functions of the client and of their   *)
(* options.  The initial state draws the client (one of two that differ in *)
(* every field) and the call to make, with its options, from all of        *)
(* AuthorizationUrlOptions and BotAuthorizationUrlArguments; the one step  *)
(* makes the call.                                                         *)
(***************************************************************************)
UrlClientOptions ==
  { HttpClientOptions,
    [clientId |-> Some("id2"), clientSecret |-> Some("s2"),
     redirectUri |-> Some("https://other.test/cb"),
     apiEndpoint |-> Some("https://api.test"), botToken |-> Some("tA")] }

\* A call about to be made.
Input(op, args) == [kind |-> "input", op |-> op, args |-> args]

InitUrl ==
  /\ \E options \in UrlClientOptions :
       /\ client = Some(constructorFields(options))
       /\ established = client
       /\ bot = [given |-> options.botToken, atConstruction |-> options.botToken,
                 set |-> FALSE]
  /\ pending = EmptyBag
  /\ fetchCount = 0
  /\ \/ \E options \in AuthorizationUrlOptions : last = Input("generateAuthUrl", options)
     \/ \E options \in BotAuthorizationUrlArguments :
          last = Input("generateBotAuthUrl", options)

applyGenerateAuthUrl ==
  /\ last.kind = "input" /\ last.op = "generateAuthUrl"
  /\ GenerateAuthUrlWith(last.args)

applyGenerateBotAuthUrl ==
  /\ last.kind = "input" /\ last.op = "generateBotAuthUrl"
  /\ GenerateBotAuthUrlWith(last.args)

NextUrl ==
  \/ applyGenerateAuthUrl
  \/ applyGenerateBotAuthUrl

SpecUrl == InitUrl /\ [][NextUrl]_vars

(***************************************************************************)
(* SpecPerm: the permission functions.  The initial state draws the list   *)
(* calculatePermissions is called with; hasPermission and                  *)
(* getPermissionFlags are then called on the string it returned (combined  *)
(* records the list that string was made of) or on a preset, a bigint.     *)
(***************************************************************************)
InitPerm ==
  /\ client = None
  /\ established = None
  /\ bot = [given |-> None, atConstruction |-> None, set |-> FALSE]
  /\ pending = EmptyBag
  /\ fetchCount = 0
  /\ \E permissions \in PermissionLists :
       last = Input("calculatePermissions", [permissions |-> permissions])

calculatePermissionsCall ==
  /\ last.kind = "input" /\ last.op = "calculatePermissions"
  /\ Return("calculatePermissions", last.args, None,
            calculatePermissions(last.args.permissions))

\* The permission values the two readers are called with after a call of
\* calculatePermissions: its result, or a preset.
PermissionValues ==
  {[permissions |-> PermString(last.result[1]), combined |-> Some(last.args.permissions)]}
  \cup {[permissions |-> PermBigInt(v), combined |-> None] : v \in PresetValues}

hasPermissionCall ==
  /\ last.kind = "call" /\ last.op = "calculatePermissions"
  /\ \E value \in PermissionValues, flag \in FlagArguments :
       Return("hasPermission",
              [permissions |-> value.permissions, flag |-> flag, combined |-> value.combined],
              None, hasPermission(value.permissions, flag))

getPermissionFlagsCall ==
  /\ last.kind = "call" /\ last.op = "calculatePermissions"
  /\ \E value \in PermissionValues :
       Return("getPermissionFlags",
              [permissions |-> value.permissions, combined |-> value.combined],
              None, getPermissionFlags(value.permissions))

NextPerm ==
  \/ calculatePermissionsCall
  \/ hasPermissionCall
  \/ getPermissionFlagsCall

SpecPerm == InitPerm /\ [][NextPerm]_vars

(***************************************************************************)
(* SpecDeclared: exchangeCode and refreshToken called twice on one client   *)
(* with the same code or token and two declared-scopes options, the two     *)
(* requests then answered by the same response.  The initial state draws    *)
(* the client, the operation, its argument and the two options.             *)
(***************************************************************************)
DeclaredScopesInputs ==
  {None, Some(<<>>), Some(<<"identify">>), Some(<<"identify", "email", "guilds.join">>)}

\* return HttpClient.post<ScopedRefreshableAccessTokenResponse<S>>(...): S is
\* a type parameter, gone at run time; the promise of the request is
\* returned as it is, whatever options holds.
tokenResponse(options, outcome) == outcome

\* The synchronous part of one of the two calls.
TokenCall(op, c, token, options) ==
  IF op = "exchangeCode"
  THEN [thrown |-> exchangeCodeValidation(token),
        issued |-> IF exchangeCodeValidation(token) # None THEN <<>>
                   ELSE requestFetches(exchangeCodeRequest(c, token, options))]
  ELSE [thrown |-> refreshTokenValidation(token),
        issued |-> IF refreshTokenValidation(token) # None THEN <<>>
                   ELSE requestFetches(refreshTokenRequest(c, token, options))]

PendingCalls(op, issued) == {[op |-> op, request |-> issued[i]] : i \in DOMAIN issued}

InitDeclared ==
  /\ \E options \in UrlClientOptions :
       /\ client = Some(constructorFields(options))
       /\ established = client
       /\ bot = [given |-> options.botToken, atConstruction |-> options.botToken,
                 set |-> FALSE]
  /\ pending = EmptyBag
  /\ fetchCount = 0
  /\ \E op \in {"exchangeCode", "refreshToken"}, token \in CodeInputs,
        left \in DeclaredScopesInputs, right \in DeclaredScopesInputs :
       last = Input(op, [token |-> token, left |-> left, right |-> right])

\* The two calls, one after the other.
callTwice ==
  /\ last.kind = "input"
  /\ LET first == TokenCall(last.op, client[1], last.args.token, last.args.left)
         second == TokenCall(last.op, client[1], last.args.token, last.args.right)
     IN /\ last' = [kind |-> "calls", op |-> last.op, args |-> last.args,
                    left |-> first, right |-> second]
        /\ fetchCount' = fetchCount + Len(first.issued) + Len(second.issued)
        /\ pending' = SetToBag(PendingCalls(last.op, first.issued))
                        (+) SetToBag(PendingCalls(last.op, second.issued))
  /\ UNCHANGED <<client, bot, established>>

\* The transport gives both requests the same answer.
settleTwice ==
  /\ last.kind = "calls"
  /\ pending # EmptyBag
  /\ \E response \in Responses :
       last' = [kind |-> "settled", op |-> last.op, args |-> last.args,
                response |-> response,
                left |-> tokenResponse(last.args.left,
                           operationOutcome(last.op, requestOutcome(response))),
                right |-> tokenResponse(last.args.right,
                            operationOutcome(last.op, requestOutcome(response)))]
  /\ pending' = EmptyBag
  /\ UNCHANGED <<client, fetchCount, bot, established>>

NextDeclared ==
  \/ callTwice
  \/ settleTwice

SpecDeclared == InitDeclared /\ [][NextDeclared]_vars

(***************************************************************************)
(* SpecParse: parseScopes as a function of its string.  The initial state   *)
(* draws the string: the names of a list of at most MaxScopes scope names   *)
(* joined by single spaces (joined records the list), or a string with      *)
(* spaces at its ends or in a row.                                          *)
(***************************************************************************)
ScopeNames == {"a", "bc", "dm", "email"}

ScopeNameLists == UNION {[1..n -> ScopeNames] : n \in 0..MaxScopes}

IrregularScopeStrings == {"identify email", " ", "   ", " a", "a ", "a  bc", " a  bc  dm "}

ParseScopesArguments ==
  {[scopeString |-> Join(list), joined |-> Some(list)] : list \in ScopeNameLists}
  \cup {[scopeString |-> s, joined |-> None] : s \in IrregularScopeStrings}

InitParse ==
  /\ client = None
  /\ established = None
  /\ bot = [given |-> None, atConstruction |-> None, set |-> FALSE]
  /\ pending = EmptyBag
  /\ fetchCount = 0
  /\ \E args \in ParseScopesArguments : last = Input("parseScopes", args)

applyParseScopes ==
  /\ last.kind = "input" /\ last.op = "parseScopes"
  /\ Return("parseScopes", last.args, None, parseScopeString(last.args.scopeString))

NextParse == applyParseScopes

SpecParse == InitParse /\ [][NextParse]_vars

(***************************************************************************)
(* SpecBot: the bot credential and the calls of addUserToGuild that use it, *)
(* with up to MaxInFlight of them awaiting their answer at once: the        *)
(* constructor, setBotToken, addUserToGuild and the transport's answers.    *)
(***************************************************************************)
addUserToGuildConcurrently == AddUserToGuildWithin(MaxInFlight)

NextBot ==
  \/ constructor
  \/ setBotToken
  \/ addUserToGuildConcurrently
  \/ settle

SpecBot == Init /\ [][NextBot]_vars

(***************************************************************************)
(* Properties.                                                             *)
(***************************************************************************)
IsCall(op) == last.kind = "call" /\ last.op = op

\* The last step threw an error of class `name` and left the transport alone.
ThrewWithoutFetch(name) ==
  /\ last.thrown # None
  /\ last.thrown[1].name = name
  /\ last.issued = <<>>
  /\ fetchCount = last.fetchBefore

RequiredArgumentOperations ==
  {"exchangeCode", "refreshToken", "revokeToken", "getCurrentAuthorizationInfo",
   "getUser", "getUserGuilds", "getUserConnections"}

RequiredArgument ==
  CASE last.op = "exchangeCode" -> last.args.code
    [] last.op = "refreshToken" -> last.args.refreshToken
    [] last.op = "revokeToken" -> last.args.token
    [] OTHER -> last.args.accessToken

EmptyRequiredArgument ==
  /\ last.kind = "call"
  /\ last.op \in RequiredArgumentOperations
  /\ RequiredArgument = ""

\* C1: a call of exchangeCode, refreshToken, revokeToken,
\* getCurrentAuthorizationInfo, getUser, getUserGuilds or getUserConnections
\* with an empty required argument throws a ValidationError, and the number
\* of transport calls after it is the number before it.
C1_EmptyArgumentIsValidationError ==
  EmptyRequiredArgument => ThrewWithoutFetch("ValidationError")

\* getUser("") after the transport has already been used once.
C1_Witness ==
  /\ EmptyRequiredArgument
  /\ last.op = "getUser"
  /\ fetchCount = 1

\* C2: addUserToGuild on a client to which no bot credential was supplied
\* (none at construction, no successful setBotToken) throws a ValidationError
\* without a transport call, whatever its arguments are.
C2_NoBotCredentialIsValidationError ==
  (IsCall("addUserToGuild") /\ ~Truthy(bot.given)) => ThrewWithoutFetch("ValidationError")

\* The case with every argument non-empty, where only the credential is missing.
C2_Witness ==
  /\ IsCall("addUserToGuild")
  /\ bot.given = None
  /\ last.args.guildId # "" /\ last.args.userId # "" /\ last.args.userAccessToken # ""
  /\ ThrewWithoutFetch("ValidationError")

ValidMemberArguments ==
  last.args.guildId # "" /\ last.args.userId # "" /\ last.args.userAccessToken # ""

HasEntry(body, key, value) ==
  \E i \in 1..Len(body.entries) : body.entries[i] = <<key, value>>

\* C3: addUserToGuild(g, u, a) with non-empty g, u, a on a client whose bot
\* credential is t makes exactly one transport call: a PUT to
\* {apiEndpoint}/guilds/g/members/u with the header Authorization "Bot t"
\* and a JSON body whose access_token is a.
C3_AddUserToGuildRequest ==
  (IsCall("addUserToGuild") /\ ValidMemberArguments /\ Truthy(bot.given)) =>
    /\ last.thrown = None
    /\ Len(last.issued) = 1
    /\ fetchCount = last.fetchBefore + 1
    /\ last.issued[1].method = "PUT"
    /\ last.issued[1].url =
         client[1].apiEndpoint \o "/guilds/" \o last.args.guildId
           \o "/members/" \o last.args.userId
    /\ last.issued[1].headers["Authorization"] = "Bot " \o bot.given[1]
    /\ last.issued[1].body # None
    /\ last.issued[1].body[1].format = "json"
    /\ HasEntry(last.issued[1].body[1], "access_token",
                "\"" \o last.args.userAccessToken \o "\"")

\* The call on a client with a custom API endpoint and optional member fields.
C3_Witness ==
  /\ IsCall("addUserToGuild") /\ ValidMemberArguments /\ Truthy(bot.given)
  /\ Len(last.issued) = 1
  /\ last.issued[1].url = "https://api.test/guilds/g1/members/u1"
  /\ last.args.options.nick # None

MissingRequiredOption ==
  /\ IsCall("constructor")
  /\ \/ ~Truthy(last.args.clientId)
     \/ ~Truthy(last.args.clientSecret)
     \/ ~Truthy(last.args.redirectUri)

\* C4 as stated: construction with a missing or empty client identifier,
\* client secret or redirect URI throws a ConfigurationError, without a
\* transport call.
C4_Original_ConfigurationError ==
  MissingRequiredOption => ThrewWithoutFetch("ConfigurationError")

\* C4, amended: construction with a missing or empty client identifier,
\* client secret or redirect URI throws a ValidationError, no client comes
\* to exist and no transport call is made.
C4_ConstructionFailsWithValidationError ==
  MissingRequiredOption => (ThrewWithoutFetch("ValidationError") /\ client = None)

\* Construction with an empty redirect URI and every other option valid.
C4_Witness ==
  /\ MissingRequiredOption
  /\ Truthy(last.args.clientId) /\ Truthy(last.args.clientSecret)
  /\ last.args.redirectUri = Some("")
  /\ last.thrown # None

EmptySetBotToken == IsCall("setBotToken") /\ last.args.botToken = ""

\* C5 as stated: setBotToken with an empty value throws a ConfigurationError
\* before any transport call.
C5_Original_ConfigurationError ==
  EmptySetBotToken => ThrewWithoutFetch("ConfigurationError")

\* C5, amended: setBotToken with an empty value throws a ValidationError, the
\* class of every construction failure, before any transport call.
C5_EmptySetBotTokenIsValidationError ==
  EmptySetBotToken =>
    /\ ThrewWithoutFetch("ValidationError")
    /\ \A options \in OAuth2ClientOptions :
         constructorValidation(options) # None =>
           constructorValidation(options)[1].name = last.thrown[1].name

\* setBotToken("") on a client that has a bot token, with a call in flight.
C5_Witness ==
  /\ EmptySetBotToken
  /\ last.thrown # None
  /\ client[1].botToken = Some("tA")
  /\ BagCardinality(pending) = 1

\* The last step settled a call whose response came back with a status that
\* is not a success status.
NonSuccessResponse ==
  /\ last.kind = "settle"
  /\ ~last.response.failed
  /\ last.response.status \notin 200..299

JsonContentType ==
  last.response.contentType \in
    {Some("application/json"), Some("application/json; charset=utf-8")}

\* The response carries a JSON body that parses to an object.
JsonObjectBody ==
  /\ JsonContentType
  /\ last.response.body.parses
  /\ last.response.body.value.t = "object"

IsRequestError ==
  /\ last.outcome.state = "rejected"
  /\ last.outcome.error[1].name = "DiscordAPIRequestError"

\* C6: a non-success response with a JSON error body makes the call fail with
\* a DiscordAPIRequestError whose statusCode is the response's status, whose
\* code and errors are the body's (absent when the body has none) and whose
\* message is the body's message when the body has a non-empty one.
C6_RequestErrorCarriesBody ==
  (NonSuccessResponse /\ JsonObjectBody) =>
    /\ IsRequestError
    /\ last.outcome.error[1].statusCode = Some(last.response.status)
    /\ last.outcome.error[1].code = last.response.body.value.code
    /\ last.outcome.error[1].errors = last.response.body.value.errors
    /\ Truthy(last.response.body.value.message) =>
         last.outcome.error[1].message = last.response.body.value.message[1]

\* refreshToken answered by 400 {"message":"invalid_grant","code":5}.
C6_Witness ==
  /\ NonSuccessResponse /\ JsonObjectBody
  /\ last.op = "refreshToken"
  /\ last.outcome.error[1].statusCode = Some(400)
  /\ last.outcome.error[1].message = "invalid_grant"
  /\ last.outcome.error[1].code = Some(5)

\* The message of the parsed error body, when there is a parsed body with a
\* non-empty message.
BodyMessage ==
  IF JsonObjectBody /\ Truthy(last.response.body.value.message)
  THEN last.response.body.value.message
  ELSE None

\* C7: the message of a DiscordAPIRequestError is the parsed error body's
\* message if present and non-empty, otherwise the response's status text if
\* non-empty, otherwise "Unknown error"; it is never empty.
C7_MessageFallbackChain ==
  (NonSuccessResponse /\ IsRequestError) =>
    /\ last.outcome.error[1].message # ""
    /\ last.outcome.error[1].message =
         IF BodyMessage # None THEN BodyMessage[1]
         ELSE IF last.response.statusText # "" THEN last.response.statusText
         ELSE "Unknown error"

\* No body message and no status text: the generic message.
C7_Witness ==
  /\ NonSuccessResponse /\ IsRequestError
  /\ BodyMessage = None
  /\ last.response.statusText = ""
  /\ last.outcome.error[1].message = "Unknown error"

\* The error body is not JSON, or is JSON that fails to parse.
NoUsableErrorBody ==
  NonSuccessResponse /\ (~JsonContentType \/ ~last.response.body.parses)

\* C8 as stated: with an error body that is not JSON or fails to parse the
\* call fails with a DiscordAPIRequestError carrying the status, whose
\* message is the status text and whose code and errors are absent.
C8_Original_MessageIsStatusText ==
  NoUsableErrorBody =>
    /\ IsRequestError
    /\ last.outcome.error[1].statusCode = Some(last.response.status)
    /\ last.outcome.error[1].message = last.response.statusText
    /\ last.outcome.error[1].code = None
    /\ last.outcome.error[1].errors = None

\* C8, amended: with an error body that is not JSON or fails to parse the
\* call fails with a DiscordAPIRequestError carrying the status, whose
\* message is the status text, or "Unknown error" when the status text is
\* empty, and whose code and errors are absent; no other error escapes.
C8_UnusableBodyIsRequestError ==
  NoUsableErrorBody =>
    /\ IsRequestError
    /\ last.outcome.error[1].statusCode = Some(last.response.status)
    /\ last.outcome.error[1].message =
         IF last.response.statusText # "" THEN last.response.statusText
         ELSE "Unknown error"
    /\ last.outcome.error[1].code = None
    /\ last.outcome.error[1].errors = None

\* A JSON content type with a body that fails to parse.
C8_Witness ==
  /\ NoUsableErrorBody
  /\ JsonContentType
  /\ ~last.response.body.parses
  /\ last.outcome.error[1].message = "Bad Request"

\* C9: a step of an operation makes at most one transport call (its
\* synchronous part one if validation passes, none otherwise; its
\* continuation none, whatever the response), and a connection failure or a
\* non-success status of that call rejects the same operation's promise.
C9_AtMostOneRequestNoRetry ==
  /\ last.kind \in {"call", "settle"} =>
       /\ Len(last.issued) <= 1
       /\ fetchCount = last.fetchBefore + Len(last.issued)
  /\ last.kind = "call" => (last.thrown # None => last.issued = <<>>)
  /\ last.kind = "settle" =>
       /\ last.issued = <<>>
       /\ last.response.failed =>
            /\ last.outcome.state = "rejected"
            /\ last.outcome.error[1].name = "TypeError"
       /\ (~last.response.failed /\ last.response.status \notin 200..299) =>
            /\ last.outcome.state = "rejected"
            /\ last.outcome.error[1].statusCode = Some(last.response.status)

\* A connection failure of the second request of the run.
C9_Witness ==
  /\ last.kind = "settle"
  /\ last.response.failed
  /\ last.outcome.state = "rejected"
  /\ fetchCount = 2

IsGetterCall ==
  last.kind = "call" /\ last.op \in {"getClientId", "getRedirectUri", "getApiEndpoint"}

\* C11: in every reachable state the client identifier, client secret,
\* redirect URI and API endpoint of the client are the ones the constructor
\* established, and a call of getClientId, getRedirectUri or getApiEndpoint
\* returns the established value.
C11_ConfigurationIsFixed ==
  /\ client # None =>
       /\ established # None
       /\ client[1].clientId = established[1].clientId
       /\ client[1].clientSecret = established[1].clientSecret
       /\ client[1].redirectUri = established[1].redirectUri
       /\ client[1].apiEndpoint = established[1].apiEndpoint
  /\ IsGetterCall =>
       last.result =
         CASE last.op = "getClientId" -> Some(established[1].clientId)
           [] last.op = "getRedirectUri" -> Some(established[1].redirectUri)
           [] last.op = "getApiEndpoint" -> Some(established[1].apiEndpoint)

\* getApiEndpoint on a client constructed with a custom endpoint, after a
\* successful setBotToken and two transport calls.
C11_Witness ==
  /\ IsCall("getApiEndpoint")
  /\ bot.set
  /\ fetchCount = 2
  /\ last.result = Some("https://api.test")

\* C12: the bot credential of the client is in every reachable state the one
\* supplied last by the constructor or by a successful setBotToken: no other
\* step (a URL builder, parseScopes, a getter, the synchronous part of a
\* request operation whether it throws or sends, the settling of a pending
\* call whether it fulfils or rejects) has changed it, and a step that is not
\* a call of the constructor or of setBotToken leaves it as the step found it.
C12_OnlySetBotTokenChangesBotToken ==
  /\ client # None => client[1].botToken = bot.given
  /\ (client # None /\ ~bot.set) => client[1].botToken = established[1].botToken

\* addUserToGuild has been rejected by the transport and the credential set
\* by setBotToken is still the client's.
C12_Witness ==
  /\ last.kind = "settle" /\ last.op = "addUserToGuild"
  /\ last.outcome.state = "rejected"
  /\ last.response.status = 401
  /\ bot.set
  /\ client[1].botToken = Some("tB")

DefinedFlagValues == {PermissionFlags[i].value : i \in DOMAIN PermissionFlags}

\* Every element of the list is a flag of the table.
IsFlagList(list) == \A i \in DOMAIN list : list[i] \in DefinedFlagValues

\* The names of the flags that occur in the list, in the order of the table.
NamesOf(list) ==
  LET kept == SelectSeq(PermissionFlags, LAMBDA e : \E i \in DOMAIN list : list[i] = e.value)
  IN [i \in DOMAIN kept |-> kept[i].name]

\* The last step called op on the string calculatePermissions returned for a list.
IsCallOnCombined(op) ==
  /\ last.kind = "call" /\ last.op = op
  /\ last.args.combined # None

\* C13: getPermissionFlags applied to what calculatePermissions returned for
\* a list of defined flags returns the names of exactly the flags of the
\* list, each once, in the order of the flag table; for the empty list it
\* returns the empty list and for the list of all flags every name.
C13_DecomposeInvertsCombine ==
  (IsCallOnCombined("getPermissionFlags") /\ IsFlagList(last.args.combined[1])) =>
    /\ last.result = Some(NamesOf(last.args.combined[1]))
    /\ last.args.combined[1] = <<>> => last.result = Some(<<>>)
    /\ last.args.combined[1] = AllFlagValues =>
         last.result = Some([i \in DOMAIN PermissionFlags |-> PermissionFlags[i].name])

\* The round trip of the full set: 49 names, the flags at bits 49 and 50 last.
C13_Witness ==
  /\ IsCallOnCombined("getPermissionFlags")
  /\ last.args.combined[1] = AllFlagValues
  /\ Len(last.result[1]) = 49
  /\ last.result[1][48] = "SEND_POLLS"
  /\ last.result[1][49] = "USE_EXTERNAL_APPS"

\* The bits of the set hasPermission was called with: those of the list the
\* string was combined from, or those of the bigint.
SetBits ==
  IF last.args.combined # None
  THEN UNION {last.args.combined[1][i] : i \in DOMAIN last.args.combined[1]}
  ELSE last.args.permissions.bits

\* C14: hasPermission(set, flag) is true exactly when every bit of flag is a
\* bit of set, for a set given as a decimal string or as a bigint: a
\* multi-bit flag needs all its bits, and the flag 0 is had by every set.
C14_HasPermissionIsAndEquality ==
  (last.kind = "call" /\ last.op = "hasPermission") =>
    /\ last.result = Some(\A b \in last.args.flag : b \in SetBits)
    /\ last.args.flag = {} => last.result = Some(TRUE)

\* A two-bit flag of which the set has one bit only.
C14_Witness ==
  /\ IsCallOnCombined("hasPermission")
  /\ last.args.combined[1] = <<Flag("ADMINISTRATOR")>>
  /\ last.args.flag = {3, 49}
  /\ last.result = Some(FALSE)

\* hasPermission was called on calculatePermissions([A, B]) with a flag C,
\* for defined flags A, B, C with A and B distinct.
IsPairQuery ==
  /\ IsCallOnCombined("hasPermission")
  /\ Len(last.args.combined[1]) = 2
  /\ IsFlagList(last.args.combined[1])
  /\ last.args.combined[1][1] # last.args.combined[1][2]
  /\ last.args.flag \in DefinedFlagValues

\* C15: for distinct defined flags A, B, C, hasPermission on what
\* calculatePermissions([A, B]) returned is true for A and false for C.
C15_PairHasFirstNotThird ==
  IsPairQuery =>
    /\ last.args.flag = last.args.combined[1][1] => last.result = Some(TRUE)
    /\ last.args.flag \notin {last.args.combined[1][1], last.args.combined[1][2]} =>
         last.result = Some(FALSE)

\* A the flag at bit 49: the query for A is true.
C15_Witness ==
  /\ IsPairQuery
  /\ last.args.combined[1] = <<Flag("SEND_POLLS"), Flag("CREATE_INSTANT_INVITE")>>
  /\ last.args.flag = Flag("SEND_POLLS")
  /\ last.result = Some(TRUE)

\* C16: calculatePermissions returns the decimal numeral of the bitwise OR
\* of the elements of its list, whatever their order and repetition: "0" for
\* the empty list, and for a list of one flag the numeral of that flag (2^49
\* and 2^50 for the flags at bits 49 and 50).
C16_CombineIsBitwiseOr ==
  (last.kind = "call" /\ last.op = "calculatePermissions") =>
    /\ BigInt(last.result[1]) =
         UNION {last.args.permissions[i] : i \in DOMAIN last.args.permissions}
    /\ last.args.permissions = <<>> => last.result = Some("0")
    /\ last.args.permissions = <<Flag("SEND_POLLS")>> =>
         last.result = Some("562949953421312")
    /\ last.args.permissions = <<Flag("USE_EXTERNAL_APPS")>> =>
         last.result = Some("1125899906842624")

\* The raw value 3 combined with the flag at bit 50.
C16_Witness ==
  /\ last.kind = "call" /\ last.op = "calculatePermissions"
  /\ last.args.permissions = <<{0, 1}, Flag("USE_EXTERNAL_APPS")>>
  /\ last.result = Some("1125899906842627")

\* The value of the query parameter `key` of a URL, None when the URL has
\* no such parameter.
ParamOf(url, key) ==
  IF \E i \in DOMAIN url.searchParams : url.searchParams[i][1] = key
  THEN Some(url.searchParams[CHOOSE i \in DOMAIN url.searchParams :
                               url.searchParams[i][1] = key][2])
  ELSE None

\* Each scope of the list with a space before it.
RECURSIVE SpacePrefixed(_)
SpacePrefixed(scopes) ==
  IF Len(scopes) = 0 THEN "" ELSE " " \o scopes[1] \o SpacePrefixed(Tail(scopes))

\* C17: generateAuthUrl called with no scopes option or with an empty scope
\* list throws a ValidationError and returns no URL, whatever its other
\* options are.
C17_NoScopesIsValidationError ==
  (IsCall("generateAuthUrl") /\ last.args.scopes \in {None, Some(<<>>)}) =>
    /\ ThrewWithoutFetch("ValidationError")
    /\ last.result = None

\* An empty scope list with every other option supplied.
C17_Witness ==
  /\ IsCall("generateAuthUrl")
  /\ last.args.scopes = Some(<<>>)
  /\ last.args.state # None /\ last.args.permissions # None /\ last.args.guildId # None
  /\ last.thrown # None

\* The extra scopes a call of generateBotAuthUrl was given.
ExtraScopes ==
  IF last.args.options = None \/ last.args.options[1].scopes = None THEN <<>>
  ELSE last.args.options[1].scopes[1]

\* C18: the scope parameter of the URL generateBotAuthUrl returns is "bot"
\* followed by each extra scope in the order passed, separated by single
\* spaces; it is "bot" when no options are passed.
C18_BotScopeParameter ==
  IsCall("generateBotAuthUrl") =>
    /\ last.result # None
    /\ ParamOf(last.result[1], "scope") = Some("bot" \o SpacePrefixed(ExtraScopes))
    /\ last.args.options = None => ParamOf(last.result[1], "scope") = Some("bot")

\* Two extra scopes.
C18_Witness ==
  /\ IsCall("generateBotAuthUrl")
  /\ ExtraScopes = <<"identify", "guilds">>
  /\ ParamOf(last.result[1], "scope") = Some("bot identify guilds")

\* C19: the URL generateBotAuthUrl returns has the parameters redirect_uri
\* (the client's redirect URI) and response_type ("code") when at least one
\* extra scope is passed, and has neither when no options, no scopes option
\* or an empty scope list is passed.
C19_BotRedirectOnlyWithExtraScopes ==
  IsCall("generateBotAuthUrl") =>
    IF Len(ExtraScopes) > 0
    THEN /\ ParamOf(last.result[1], "redirect_uri") = Some(established[1].redirectUri)
         /\ ParamOf(last.result[1], "response_type") = Some("code")
    ELSE /\ ParamOf(last.result[1], "redirect_uri") = None
         /\ ParamOf(last.result[1], "response_type") = None

\* An empty extra-scope list: neither parameter.
C19_Witness ==
  /\ IsCall("generateBotAuthUrl")
  /\ last.args.options # None
  /\ last.args.options[1].scopes = Some(<<>>)
  /\ ParamOf(last.result[1], "redirect_uri") = None
  /\ ParamOf(last.result[1], "response_type") = None

\* The optional parameters of the authorization URL and the option each comes from.
OptionalParameters ==
  { <<"state", "state">>, <<"prompt", "prompt">>, <<"integration_type", "integrationType">>,
    <<"guild_id", "guildId">>, <<"disable_guild_select", "disableGuildSelect">>,
    <<"permissions", "permissions">> }

NonEmptyScopes == last.args.scopes # None /\ Len(last.args.scopes[1]) > 0

\* C20: for a non-empty scope list the URL generateAuthUrl returns has
\* client_id (the client's), redirect_uri (the client's), scope (the scopes in
\* the order given, separated by single spaces) and response_type (the
\* response type passed, "code" when none is), and has each of state, prompt,
\* integration_type, guild_id, disable_guild_select and permissions exactly
\* when the option is supplied, an empty string, 0 or false included.
C20_AuthUrlParameters ==
  (IsCall("generateAuthUrl") /\ NonEmptyScopes) =>
    /\ last.thrown = None
    /\ last.result # None
    /\ ParamOf(last.result[1], "client_id") = Some(established[1].clientId)
    /\ ParamOf(last.result[1], "redirect_uri") = Some(established[1].redirectUri)
    /\ ParamOf(last.result[1], "scope") =
         Some(last.args.scopes[1][1] \o SpacePrefixed(Tail(last.args.scopes[1])))
    /\ ParamOf(last.result[1], "response_type") =
         IF last.args.responseType \in {None, Some(Str(""))} THEN Some("code")
         ELSE Some(last.args.responseType[1].s)
    /\ \A pair \in OptionalParameters :
         (ParamOf(last.result[1], pair[1]) # None) <=> (last.args[pair[2]] # None)

\* An empty state, integration type 0 and disableGuildSelect false: all three
\* are in the URL.
C20_Witness ==
  /\ IsCall("generateAuthUrl") /\ NonEmptyScopes
  /\ last.args.state = Some(Str(""))
  /\ last.args.integrationType = Some(Num(0))
  /\ last.args.disableGuildSelect = Some(Bool(FALSE))
  /\ last.args.prompt = None
  /\ ParamOf(last.result[1], "state") = Some("")
  /\ ParamOf(last.result[1], "integration_type") = Some("0")
  /\ ParamOf(last.result[1], "disable_guild_select") = Some("false")
  /\ ParamOf(last.result[1], "prompt") = None


BasicOperations ==
  {"exchangeCode", "refreshToken", "getClientCredentials", "revokeToken",
   "getCurrentBotApplication"}

BearerOperations ==
  {"getCurrentAuthorizationInfo", "getUser", "getUserGuilds", "getUserConnections"}

\* The last step was a call that handed a request to the transport.
IssuedRequest == last.kind = "call" /\ Len(last.issued) > 0

\* The base64 text of "id:secret" for the credentials of the model's clients.
BasicCredentials ==
  CASE <<established[1].clientId, established[1].clientSecret>> = <<"id1", "s1">> -> "aWQxOnMx"
    [] <<established[1].clientId, established[1].clientSecret>> = <<"id2", "s2">> -> "aWQyOnMy"

\* C21: the Authorization header of every request handed to the transport is
\* "Basic " and the base64 of "id:secret" for exchangeCode, refreshToken,
\* getClientCredentials, revokeToken and getCurrentBotApplication; "Bearer "
\* and the access token of the call for getCurrentAuthorizationInfo, getUser,
\* getUserGuilds and getUserConnections; "Bot " and the bot credential for
\* addUserToGuild.
C21_AuthenticationSchemePerOperation ==
  IssuedRequest =>
    /\ last.op \in BasicOperations \cup BearerOperations \cup {"addUserToGuild"}
    /\ last.issued[1].headers["Authorization"] =
         IF last.op \in BasicOperations THEN "Basic " \o BasicCredentials
         ELSE IF last.op \in BearerOperations THEN "Bearer " \o last.args.accessToken
         ELSE "Bot " \o bot.given[1]

\* getCurrentBotApplication on a client that has a bot credential: the
\* request is authenticated with the client id and secret all the same.
C21_Witness ==
  /\ IssuedRequest
  /\ last.op = "getCurrentBotApplication"
  /\ Truthy(client[1].botToken)
  /\ last.issued[1].headers["Authorization"] = "Basic aWQxOnMx"


\* The last step settled a call whose response came back with a success status.
SuccessResponse ==
  /\ last.kind = "settle"
  /\ ~last.response.failed
  /\ last.response.status \in 200..299

DifferentDeclaredScopes == last.args.left # last.args.right

\* C23: two calls of exchangeCode, or of refreshToken, that differ only in
\* the scopes they declare throw the same error or hand the transport the
\* same request (URL, method, headers and body), a request that has no scope
\* field; answered by the same response, both are fulfilled with the same
\* value or rejected with the same error.
C23_DeclaredScopesHaveNoEffect ==
  /\ last.kind = "calls" =>
       /\ last.left = last.right
       /\ \A i \in DOMAIN last.left.issued :
            \A j \in DOMAIN last.left.issued[i].body[1].entries :
              last.left.issued[i].body[1].entries[j][1] # "scope"
  /\ last.kind = "settled" => last.left = last.right

\* exchangeCode without declared scopes and with three: same token payload.
C23_Witness ==
  /\ last.kind = "settled"
  /\ last.op = "exchangeCode"
  /\ last.args.left = None
  /\ last.args.right = Some(<<"identify", "email", "guilds.join">>)
  /\ last.left.state = "fulfilled"
  /\ last.left.value[1].data = Some("payload")
  /\ last.right = last.left


\* The requests handed to the transport that the state holds: the one the
\* last step issued and the ones still awaiting their answer.
HandedToTransport ==
  (IF last.kind = "call" THEN {last.issued[i] : i \in DOMAIN last.issued} ELSE {})
  \cup {call.request : call \in BagToSet(pending)}

HasHeader(req, name, value) ==
  name \in DOMAIN req.headers /\ req.headers[name] = value

\* C24: every request handed to the transport has the User-Agent header
\* "discord-oauth2 (https://github.com/0neShot101/discord-oauth2)"; a POST
\* request has a body and Content-Type application/x-www-form-urlencoded, a
\* PUT request has a body and Content-Type application/json, and a GET
\* request has no body.
C24_FixedHeadersPerMethod ==
  \A req \in HandedToTransport :
    /\ req.method \in {"GET", "POST", "PUT"}
    /\ HasHeader(req, "User-Agent",
                 "discord-oauth2 (https://github.com/0neShot101/discord-oauth2)")
    /\ req.method = "POST" =>
         /\ HasHeader(req, "Content-Type", "application/x-www-form-urlencoded")
         /\ req.body # None /\ req.body[1].format = "form"
    /\ req.method = "PUT" =>
         /\ HasHeader(req, "Content-Type", "application/json")
         /\ req.body # None /\ req.body[1].format = "json"
    /\ req.method = "GET" => req.body = None

\* A GET of the guild list, the second request of the run.
C24_Witness ==
  /\ IssuedRequest
  /\ last.op = "getUserGuilds"
  /\ fetchCount = 2
  /\ last.issued[1].method = "GET"
  /\ last.issued[1].body = None
  /\ last.issued[1] \in HandedToTransport
  /\ "Content-Type" \notin DOMAIN last.issued[1].headers


\* The string has a space in it.
HasSpace(s) == \E k \in 1..Len(s) : SubSeq(s, k, k) = " "

\* C25: the list parseScopes returns has no empty string in it and no element
\* with a space; for the empty string it is the empty list; and for the
\* names of a list (non-empty, without spaces) joined by single spaces it is
\* that list, in the same order.
C25_ParseScopesSplitsOnSpaces ==
  IsCall("parseScopes") =>
    /\ last.thrown = None
    /\ \A i \in DOMAIN last.result[1] :
         last.result[1][i] # "" /\ ~HasSpace(last.result[1][i])
    /\ last.args.scopeString = "" => last.result = Some(<<>>)
    /\ last.args.joined # None => last.result = last.args.joined

\* The example of the documentation.
C25_Witness ==
  /\ IsCall("parseScopes")
  /\ last.args.scopeString = "identify email"
  /\ last.result = Some(<<"identify", "email">>)


\* The step has put the call into the hands of the transport.
NewlyInFlight(call) == CopiesIn(call, pending') > CopiesIn(call, pending)

\* The step is a call of addUserToGuild that issued the request of `call`.
IssuedByThisStep(call) ==
  /\ last'.kind = "call" /\ last'.op = "addUserToGuild"
  /\ last'.issued = <<call.request>>
  /\ CopiesIn(call, pending') = CopiesIn(call, pending) + 1

\* Every call in flight after a step was in flight, with the same request,
\* before it, or is the call of addUserToGuild the step made, whose
\* Authorization is "Bot " and the credential the client had when the step
\* began; and a call of setBotToken leaves the calls in flight as they were.
InFlightKept ==
  /\ \A call \in BagToSet(pending') :
       NewlyInFlight(call) =>
         /\ IssuedByThisStep(call)
         /\ Truthy(client[1].botToken)
         /\ call.request.headers["Authorization"] = "Bot " \o client[1].botToken[1]
  /\ (last'.kind = "call" /\ last'.op = "setBotToken") => pending' = pending

\* C26: no step changes the request of an addUserToGuild call in flight,
\* a setBotToken step least of all: the Authorization of a request is "Bot "
\* and the credential configured when its addUserToGuild was invoked, and
\* only the calls made after setBotToken returned carry the new credential.
C26_InFlightRequestKeepsItsCredential == [][InFlightKept]_vars

\* Two calls in flight: one made before setBotToken("tB") with the
\* constructor's tA, one made after it with tB.
C26_Witness ==
  /\ client # None /\ client[1].botToken = Some("tB")
  /\ \E old, new \in BagToSet(pending) :
       /\ old.op = "addUserToGuild" /\ new.op = "addUserToGuild"
       /\ old.request.headers["Authorization"] = "Bot tA"
       /\ new.request.headers["Authorization"] = "Bot tB"


\* The step recorded in l is a call of setBotToken that threw.
FailedSetBotToken(l) == l.kind = "call" /\ l.op = "setBotToken" /\ l.thrown # None

\* The step recorded in l is a call of addUserToGuild with no empty argument.
ValidAddUserToGuild(l) ==
  /\ l.kind = "call" /\ l.op = "addUserToGuild"
  /\ l.args.guildId # "" /\ l.args.userId # "" /\ l.args.userAccessToken # ""

\* A failing setBotToken step leaves the client and the calls in flight as
\* they were; and the addUserToGuild that follows it sends the credential the
\* client has, or throws for want of one when the client has none.
FailedSetterKeepsClient ==
  /\ FailedSetBotToken(last') =>
       /\ client' = client
       /\ pending' = pending
       /\ fetchCount' = fetchCount
  /\ (FailedSetBotToken(last) /\ ValidAddUserToGuild(last')) =>
       IF Truthy(bot.given)
       THEN /\ last'.thrown = None
            /\ Len(last'.issued) = 1
            /\ last'.issued[1].headers["Authorization"] = "Bot " \o bot.given[1]
       ELSE /\ last'.thrown # None
            /\ last'.thrown[1].message = "Bot token is required to add members to a guild"
            /\ last'.issued = <<>>

\* C27: a call of setBotToken with an empty argument throws and leaves the
\* client as it was: the next addUserToGuild authenticates with the
\* credential supplied before the failed call, and on a client that had no
\* credential it still fails for want of one.
C27_FailedSetBotTokenChangesNothing == [][FailedSetterKeepsClient]_vars

\* setBotToken("") has failed on a client whose credential tB came from an
\* earlier setBotToken, with a call in flight; the credential is still tB.
C27_Witness ==
  /\ FailedSetBotToken(last)
  /\ last.args.botToken = ""
  /\ bot.set
  /\ client[1].botToken = Some("tB")
  /\ bot.atConstruction = None
  /\ BagCardinality(pending) = 2


\* The value of the body's field, or None.
BodyField(body, key) ==
  IF \E i \in DOMAIN body.entries : body.entries[i][1] = key
  THEN Some(body.entries[CHOOSE i \in DOMAIN body.entries : body.entries[i][1] = key][2])
  ELSE None

\* The header is "Bot " followed by a token that is neither empty nor the
\* text of undefined.
NonEmptyBotHeader(header) ==
  /\ Len(header) > 4
  /\ SubSeq(header, 1, 4) = "Bot "
  /\ header # "Bot undefined"

\* C28: every PUT request handed to the transport, whatever the client was
\* constructed with, has an Authorization "Bot t" with t not empty, a URL
\* {apiEndpoint}/guilds/g/members/u with g and u not empty, and a body whose
\* access_token is not empty; and a call of addUserToGuild on a client whose
\* bot token is undefined or empty, or with an empty argument, hands no
\* request to the transport.
C28_NoPutWithEmptyCredential ==
  /\ \A req \in HandedToTransport :
       req.method = "PUT" =>
         /\ "Authorization" \in DOMAIN req.headers
         /\ NonEmptyBotHeader(req.headers["Authorization"])
         /\ \E g \in GuildIdInputs \ {""}, u \in UserIdInputs \ {""} :
              req.url = established[1].apiEndpoint \o "/guilds/" \o g \o "/members/" \o u
         /\ BodyField(req.body[1], "access_token") \notin {None, Some(""), Some("\"\"")}
  /\ (IsCall("addUserToGuild") /\ (~Truthy(client[1].botToken) \/ ~ValidMemberArguments)) =>
       /\ last.issued = <<>>
       /\ fetchCount = last.fetchBefore

\* addUserToGuild with valid arguments on a client constructed with the
\* bot token "": the constructor accepted it, the call throws and sends
\* nothing.
C28_Witness ==
  /\ IsCall("addUserToGuild") /\ ValidMemberArguments
  /\ established[1].botToken = Some("")
  /\ client[1].botToken = Some("")
  /\ last.thrown # None
  /\ last.issued = <<>>
  /\ pending = EmptyBag


\* The message of the error the last call threw, or None.
ThrownMessage ==
  IF last.thrown = None THEN None ELSE Some(last.thrown[1].message)

\* C29: a call of addUserToGuild reports the first of its preconditions that
\* fails, in the order bot credential, guild id, user id, user access token,
\* as a ValidationError, and throws nothing when none fails.
C29_FirstFailedPreconditionIsReported ==
  IsCall("addUserToGuild") =>
    /\ last.thrown # None => last.thrown[1].name = "ValidationError"
    /\ ThrownMessage =
         IF ~Truthy(bot.given)
         THEN Some("Bot token is required to add members to a guild")
         ELSE IF last.args.guildId = "" THEN Some("Guild ID is required")
         ELSE IF last.args.userId = "" THEN Some("User ID is required")
         ELSE IF last.args.userAccessToken = "" THEN Some("User access token is required")
         ELSE None

\* No bot credential and every argument empty: the missing credential is
\* what is reported.
C29_Witness ==
  /\ IsCall("addUserToGuild")
  /\ ~Truthy(bot.given)
  /\ last.args.guildId = "" /\ last.args.userId = "" /\ last.args.userAccessToken = ""
  /\ ThrownMessage = Some("Bot token is required to add members to a guild")


\* sub occurs in s.
Contains(s, sub) ==
  \E i \in 1..(Len(s) - Len(sub) + 1) : SubSeq(s, i, i + Len(sub) - 1) = sub

\* The texts a URL is made of: its base, and the names and values of its
\* query parameters.
UrlTexts(url) ==
  {url.base}
  \cup {url.searchParams[i][1] : i \in DOMAIN url.searchParams}
  \cup {url.searchParams[i][2] : i \in DOMAIN url.searchParams}

\* The texts of the body of a request.
BodyTexts(req) ==
  IF req.body = None THEN {}
  ELSE {req.body[1].entries[i][1] : i \in DOMAIN req.body[1].entries}
       \cup {req.body[1].entries[i][2] : i \in DOMAIN req.body[1].entries}

\* The texts of a request: its URL, its header values and its body.
RequestTexts(req) ==
  {req.url} \cup {req.headers[h] : h \in DOMAIN req.headers} \cup BodyTexts(req)

\* The bot credentials the client has had: the constructor's and the one
\* supplied last, those that are not empty.
BotCredentials ==
  {t[1] : t \in {o \in {bot.atConstruction, bot.given} : Truthy(o)}}

\* The calls, with their operation, whose request the state holds.
CallsHandedToTransport ==
  (IF last.kind = "call"
   THEN {[op |-> last.op, request |-> last.issued[i]] : i \in DOMAIN last.issued}
   ELSE {})
  \cup BagToSet(pending)

\* C30: no text of a URL that generateAuthUrl or generateBotAuthUrl returns
\* contains the client secret or a bot credential of the client; no text of
\* a request of an operation other than addUserToGuild contains a bot
\* credential; and the client secret is in no URL and no body of any request.
C30_SecretsStayInHeaders ==
  /\ (last.kind = "call" /\ last.op \in {"generateAuthUrl", "generateBotAuthUrl"}
        /\ last.result # None) =>
       \A text \in UrlTexts(last.result[1]) :
         /\ ~Contains(text, established[1].clientSecret)
         /\ \A t \in BotCredentials : ~Contains(text, t)
  /\ \A call \in CallsHandedToTransport :
       /\ call.op # "addUserToGuild" =>
            \A text \in RequestTexts(call.request) :
              \A t \in BotCredentials : ~Contains(text, t)
       /\ \A text \in {call.request.url} \cup BodyTexts(call.request) :
            ~Contains(text, established[1].clientSecret)

\* generateBotAuthUrl on a client whose bot credential was set to tB, while
\* a request of getCurrentBotApplication is in flight.
C30_Witness ==
  /\ IsCall("generateBotAuthUrl")
  /\ last.result # None
  /\ ParamOf(last.result[1], "scope") = Some("bot identify guilds")
  /\ client[1].botToken = Some("tB")
  /\ \E call \in BagToSet(pending) : call.op = "getCurrentBotApplication"

====
